---- MODULE Spec2Model ----
(***************************************************************************)
(* Model of dashgate's discovery engine: the Start/Stop/worker lifecycle   *)
(* of the nginx and Unraid discovery sources (internal/discovery), their   *)
(* collection cycles, the per-source snapshot cache, and the admin         *)
(* handlers that reconcile the live aggregate with the override store.     *)
(*                                                                         *)
(* Strings that the code inspects character by character (URLs) are        *)
(* sequences of one-character strings.  An app record keeps the fields of  *)
(* models.App that the modelled code reads or that tell two entries with   *)
(* the same URL apart (URL, Description, Status).                          *)
(***************************************************************************)
EXTENDS Integers, Sequences, FiniteSets, TLC

\* ------------------------------------------------------------------ bounds
\* Worker goroutines (and stop channels) created in one run.
MaxWorkers == 2
\* Start/Stop/Discover calls issued by the callers in one run.
MaxCalls == 3
\* Admin requests served in one run.
MaxRequests == 2

\* --------------------------------------------------------------- constants
Nil == "nil"
Sources == {"nginx", "unraid"}
Callers == {"c1", "c2"}
\* The goroutines Start can spawn, in spawning order, and their stop channels.
WorkerName == <<"w1", "w2", "w3", "w4">>
WorkerIds == {WorkerName[i] : i \in 1..MaxWorkers}
Admins == {"a1"}
Procs == Callers \cup WorkerIds
\* The nil channel; the channels made by Start are 1, 2, ...
NilChan == 0

\* ------------------------------------------------------------ string tools
\* strings.HasPrefix
HasPrefix(s, p) == Len(s) >= Len(p) /\ SubSeq(s, 1, Len(p)) = p

\* strings.Index, 1-based; 0 when sub does not occur in s.
IndexOf(s, sub) ==
  LET hits == {i \in 1..(Len(s) - Len(sub) + 1) : SubSeq(s, i, i + Len(sub) - 1) = sub}
  IN  IF hits = {} THEN 0 ELSE CHOOSE i \in hits : \A j \in hits : i <= j

\* strings.TrimRight(s, "/")
RECURSIVE TrimRightSlash(_)
TrimRightSlash(s) ==
  IF s # <<>> /\ s[Len(s)] = "/" THEN TrimRightSlash(SubSeq(s, 1, Len(s) - 1)) ELSE s

\* All orders of the elements of a finite set, as sequences.
Perms(S) ==
  {f \in [1..Cardinality(S) -> S] : \A i, j \in 1..Cardinality(S) : i # j => f[i] # f[j]}

RECURSIVE Concat(_)
Concat(ss) == IF ss = <<>> THEN <<>> ELSE Head(ss) \o Concat(Tail(ss))

\* No two apps of the list have the same URL.
DistinctURLs(as) == \A i, j \in 1..Len(as) : i # j => as[i].URL # as[j].URL

\* ------------------------------------------------- nginx collector (pure)
\* The host part of an app URL, as dedupeAppsByBasePath extracts it.
HostOfURL(url) ==
  LET idx  == IndexOf(url, <<":", "/", "/">>)
      rest == IF idx # 0 THEN SubSeq(url, idx + 3, Len(url)) ELSE url
      cut  == IndexOf(rest, <<"/">>)
  IN  IF cut # 0 THEN SubSeq(rest, 1, cut - 1) ELSE rest

\* A prefix test that forgets the "/" after the kept URL.
isSubPathNoSlash(normalizedURL, kept) ==
  \E k \in 1..Len(kept) : HasPrefix(normalizedURL, kept[k])
\* The app's trimmed URL starts with a kept URL plus "/".
isSubPath(normalizedURL, kept) ==
  \E k \in 1..Len(kept) : HasPrefix(normalizedURL, kept[k] \o <<"/">>)

\* The inner loop of dedupeAppsByBasePath over one host's apps, already
\* sorted: kept holds the trimmed URLs kept so far, result the apps kept.
RECURSIVE keepBasePaths(_, _, _)
keepBasePaths(hostApps, kept, result) ==
  IF hostApps = <<>> THEN result
  ELSE LET app == Head(hostApps)
           normalizedURL == TrimRightSlash(app.URL)
       IN  IF isSubPath(normalizedURL, kept)
             THEN keepBasePaths(Tail(hostApps), kept, result)
             ELSE keepBasePaths(Tail(hostApps), Append(kept, normalizedURL),
                                Append(result, app))

\* The orders sort.Slice may leave one host's apps in: sorted by URL length,
\* apps of equal length in any order (sort.Slice is not stable).
sortedByURLLen(hostApps) ==
  {[i \in 1..Len(hostApps) |-> hostApps[p[i]]] : p \in
     {q \in Perms(1..Len(hostApps)) :
        \A i, j \in 1..Len(hostApps) :
           i < j => Len(hostApps[q[i]].URL) <= Len(hostApps[q[j]].URL)}}

\* dedupeAppsByBasePath: the set of lists it can return.  The hosts are
\* visited in map-iteration order, which Go leaves unspecified.
dedupeAppsByBasePath(apps) ==
  IF Len(apps) = 0 THEN {apps}
  ELSE LET hosts == {HostOfURL(apps[i].URL) : i \in 1..Len(apps)}
           OfHost(h) == LET OnHost(a) == HostOfURL(a.URL) = h IN SelectSeq(apps, OnHost)
           PerHost(h) == {keepBasePaths(s, <<>>, <<>>) : s \in sortedByURLLen(OfHost(h))}
       IN  UNION {{Concat([i \in 1..Len(order) |-> pick[order[i]]]) :
                      pick \in {f \in [hosts -> UNION {PerHost(h) : h \in hosts}] :
                                  \A h \in hosts : f[h] \in PerHost(h)}} :
                  order \in Perms(hosts)}

\* The seenURLs filter of DiscoverNginxApps: an entry whose URL was already
\* emitted in this run is skipped.
RECURSIVE skipSeenURLs(_, _, _)
skipSeenURLs(found, seenURLs, apps) ==
  IF found = <<>> THEN apps
  ELSE IF Head(found).URL \in seenURLs
         THEN skipSeenURLs(Tail(found), seenURLs, apps)
         ELSE skipSeenURLs(Tail(found), seenURLs \cup {Head(found).URL},
                           Append(apps, Head(found)))

\* strings.HasSuffix
HasSuffix(s, p) == Len(s) >= Len(p) /\ SubSeq(s, Len(s) - Len(p) + 1, Len(s)) = p
\* strings.Contains
Contains(s, sub) == IndexOf(s, sub) # 0
\* strings.ToLower, letter by letter.
ToLowerChar ==
  [c \in {"A", "B", "C", "D", "E", "F", "G", "H", "I", "J", "K", "L", "M", "N", "O", "P", "Q", "R", "S", "T", "U", "V", "W", "X", "Y", "Z"} |->
     CASE c = "A" -> "a"
       [] c = "B" -> "b"
       [] c = "C" -> "c"
       [] c = "D" -> "d"
       [] c = "E" -> "e"
       [] c = "F" -> "f"
       [] c = "G" -> "g"
       [] c = "H" -> "h"
       [] c = "I" -> "i"
       [] c = "J" -> "j"
       [] c = "K" -> "k"
       [] c = "L" -> "l"
       [] c = "M" -> "m"
       [] c = "N" -> "n"
       [] c = "O" -> "o"
       [] c = "P" -> "p"
       [] c = "Q" -> "q"
       [] c = "R" -> "r"
       [] c = "S" -> "s"
       [] c = "T" -> "t"
       [] c = "U" -> "u"
       [] c = "V" -> "v"
       [] c = "W" -> "w"
       [] c = "X" -> "x"
       [] c = "Y" -> "y"
       [] c = "Z" -> "z"]
ToLower(s) == [i \in 1..Len(s) |-> IF s[i] \in DOMAIN ToLowerChar THEN ToLowerChar[s[i]] ELSE s[i]]

\* Exact location paths that are not real apps.
skipLocationPaths ==
  {<<"/">>, <<"/", ".", "w", "e", "l", "l", "-", "k", "n", "o", "w", "n">>,
   <<"/", "a", "p", "i">>, <<"/", "s", "t", "a", "t", "i", "c">>,
   <<"/", "a", "s", "s", "e", "t", "s">>, <<"/", "p", "u", "b", "l", "i", "c">>,
   <<"/", "m", "e", "d", "i", "a">>, <<"/", "u", "p", "l", "o", "a", "d", "s">>,
   <<"/", "f", "a", "v", "i", "c", "o", "n", ".", "i", "c", "o">>, <<"/", "r", "o", "b", "o", "t", "s", ".", "t", "x", "t">>,
   <<"/", "h", "e", "a", "l", "t", "h">>, <<"/", "h", "e", "a", "l", "t", "h", "z">>,
   <<"/", "m", "e", "t", "r", "i", "c", "s">>, <<"/", "s", "t", "u", "b", "_", "s", "t", "a", "t", "u", "s">>,
   <<"/", "n", "g", "i", "n", "x", "_", "s", "t", "a", "t", "u", "s">>, <<"/", "s", "e", "r", "v", "e", "r", "-", "s", "t", "a", "t", "u", "s">>}
\* Substrings that indicate non-app paths.
skipLocationPatterns ==
  {<<"/", "a", "u", "t", "h", "e", "l", "i", "a", "/">>, <<"/", "a", "u", "t", "h", "e", "n", "t", "i", "k", "/">>,
   <<"/", "a", "p", "i", "/", "a", "u", "t", "h", "z">>, <<"/", ".", "o", "a", "u", "t", "h", "/">>,
   <<"/", "o", "a", "u", "t", "h", "2", "/">>, <<"/", "s", "o", "c", "k", "e", "t", ".", "i", "o", "/">>,
   <<"/", "s", "o", "c", "k", "j", "s", "/">>, <<"/", "w", "e", "b", "s", "o", "c", "k", "e", "t", "/">>,
   <<"/", "a", "p", "i", "/">>, <<"/", "c", "o", "n", "t", "r", "o", "l", "/">>,
   <<"/", "d", "o", "w", "n", "l", "o", "a", "d", "/">>, <<"/", "d", "o", "w", "n", "l", "o", "a", "d", "s", "/">>}
\* Path suffixes to skip.
skipLocationSuffixes ==
  {<<"/", "a", "p", "i">>, <<"/", "w", "s">>, <<"/", "w", "s", "s">>,
   <<"/", "f", "e", "e", "d">>, <<"/", "r", "s", "s">>, <<"/", "a", "t", "o", "m">>,
   <<"/", "a", "u", "t", "h">>, <<"/", "l", "o", "g", "i", "n">>, <<"/", "l", "o", "g", "o", "u", "t">>,
   <<"/", "c", "a", "l", "l", "b", "a", "c", "k">>, <<"/", "s", "i", "g", "n", "i", "n">>, <<"/", "s", "i", "g", "n", "o", "u", "t">>,
   <<"/", "o", "p", "d", "s">>, <<"/", "k", "o", "b", "o">>}
\* strings.ContainsAny(path, "()[]{}*+?^$|\\")
hasRegexMetachars(path) ==
  \E i \in 1..Len(path) :
     path[i] \in {"(", ")", "[", "]", "{", "}", "*", "+", "?", "^", "$", "|", "\\"}

\* The exact-match check applied to the path as written, slashes and all.
shouldSkipUntrimmed(locPath) ==
  \/ hasRegexMetachars(locPath)
  \/ locPath \in skipLocationPaths
  \/ \E pattern \in skipLocationPatterns : Contains(ToLower(locPath), pattern)
  \/ \E suffix \in skipLocationSuffixes : HasSuffix(locPath, suffix)
\* shouldSkipLocation: the location path is filtered out.
shouldSkipLocation(locPath) ==
  LET trimmed == TrimRightSlash(locPath)
      cleanPath == IF trimmed = <<>> THEN <<"/">> ELSE trimmed
  IN  \/ hasRegexMetachars(locPath)
      \/ cleanPath \in skipLocationPaths
      \/ \E pattern \in skipLocationPatterns : Contains(ToLower(locPath), pattern)
      \/ \E suffix \in skipLocationSuffixes : HasSuffix(cleanPath, suffix)

\* strings.TrimLeft(s, "/")
RECURSIVE TrimLeftSlash(_)
TrimLeftSlash(s) == IF s # <<>> /\ Head(s) = "/" THEN TrimLeftSlash(Tail(s)) ELSE s
\* The first path segment the app name is derived from; empty for a path
\* of slashes only.
pathName(locPath) ==
  LET trimmed == TrimRightSlash(TrimLeftSlash(locPath))
      idx == IndexOf(trimmed, <<"/">>)
  IN  IF idx > 1 THEN SubSeq(trimmed, 1, idx - 1) ELSE trimmed

\* fmt.Sprintf("%s://%s%s", protocol, validHost, locPath)
AppURL(protocol, validHost, locPath) == protocol \o <<":", "/", "/">> \o validHost \o locPath

\* The location loop of one server block.  st carries seenURLs, the apps
\* appended so far and foundLocationApps.
RECURSIVE locationApps(_, _, _)
locationApps(locations, block, st) ==
  IF locations = <<>> THEN st
  ELSE LET location == Head(locations)
           appURL == AppURL(block.protocol, block.host, location.path)
       IN  IF shouldSkipLocation(location.path) THEN locationApps(Tail(locations), block, st)
           ELSE IF location.upstream = "" THEN locationApps(Tail(locations), block, st)
           ELSE IF appURL \in st.seenURLs THEN locationApps(Tail(locations), block, st)
           ELSE IF pathName(location.path) = <<>>
             THEN locationApps(Tail(locations), block,
                               [st EXCEPT !.seenURLs = @ \cup {appURL}])
           ELSE locationApps(Tail(locations), block,
                  [seenURLs |-> st.seenURLs \cup {appURL},
                   apps |-> Append(st.apps, [URL |-> appURL, Description |-> location.upstream,
                                             Status |-> "online"]),
                   foundLocationApps |-> TRUE])

\* The first proxy_pass of the server block's text: proxyPassRe runs over
\* the whole block, location bodies included.
serverUpstream(block) ==
  LET ups == [i \in 1..Len(block.locations) |-> block.locations[i].upstream]
      IsSet(u) == u # ""
      all == (IF block.upstream # "" THEN <<block.upstream>> ELSE <<>>) \o SelectSeq(ups, IsSet)
  IN  IF all = <<>> THEN "" ELSE Head(all)

\* The server-block loop of processConfigFile, over the blocks that have a
\* usable server_name, in file order.
RECURSIVE serverBlockApps(_, _, _)
serverBlockApps(blocks, seenURLs, apps) ==
  IF blocks = <<>> THEN apps
  ELSE LET block == Head(blocks)
           st == locationApps(block.locations, block,
                              [seenURLs |-> seenURLs, apps |-> apps, foundLocationApps |-> FALSE])
           appURL == AppURL(block.protocol, block.host, <<>>)
       IN  IF st.foundLocationApps THEN serverBlockApps(Tail(blocks), st.seenURLs, st.apps)
           ELSE IF serverUpstream(block) = "" THEN serverBlockApps(Tail(blocks), st.seenURLs, st.apps)
           ELSE IF appURL \in st.seenURLs THEN serverBlockApps(Tail(blocks), st.seenURLs, st.apps)
           ELSE serverBlockApps(Tail(blocks), st.seenURLs \cup {appURL},
                  Append(st.apps, [URL |-> appURL, Description |-> serverUpstream(block),
                                   Status |-> "online"]))

\* DiscoverNginxApps on the parsed server blocks: the lists it can hand to
\* SetApps.
DiscoverNginxApps(blocks) == dedupeAppsByBasePath(serverBlockApps(blocks, {}, <<>>))

\* ------------------------------------------------ Unraid collector (pure)
\* strings.ReplaceAll(s, old, new) for a non-empty old.
RECURSIVE ReplaceAll(_, _, _)
ReplaceAll(s, old, new) ==
  IF s = <<>> THEN <<>>
  ELSE IF HasPrefix(s, old)
         THEN new \o ReplaceAll(SubSeq(s, Len(old) + 1, Len(s)), old, new)
         ELSE <<Head(s)>> \o ReplaceAll(Tail(s), old, new)

PortOpen == <<"[", "P", "O", "R", "T", ":">>
IPPlaceholder == <<"[", "I", "P", "]">>

\* The [PORT:x] loop of processUnraidWebUIURL.
RECURSIVE stripPortPlaceholders(_)
stripPortPlaceholders(result) ==
  LET start == IndexOf(result, PortOpen)
      end   == IF start = 0 THEN 0
               ELSE IndexOf(SubSeq(result, start, Len(result)), <<"]">>)
      close == start + end - 1
  IN  IF start = 0 \/ end = 0 THEN result
      ELSE stripPortPlaceholders(SubSeq(result, 1, start - 1)
                                   \o SubSeq(result, start + 6, close - 1)
                                   \o SubSeq(result, close + 1, Len(result)))

\* url.Parse(unraidURL).Hostname() for a URL of the form scheme://host[:port][/path].
Hostname(unraidURL) ==
  LET h == HostOfURL(unraidURL)
      colon == IndexOf(h, <<":">>)
  IN  IF colon # 0 THEN SubSeq(h, 1, colon - 1) ELSE h

processUnraidWebUIURL(webUIURL, unraidURL) ==
  stripPortPlaceholders(ReplaceAll(webUIURL, IPPlaceholder, Hostname(unraidURL)))

\* strings.ToUpper, letter by letter.
ToUpperChar ==
  [c \in {"a", "b", "c", "d", "e", "f", "g", "h", "i", "j", "k", "l", "m", "n", "o", "p", "q", "r", "s", "t", "u", "v", "w", "x", "y", "z"} |->
     CASE c = "a" -> "A"
       [] c = "b" -> "B"
       [] c = "c" -> "C"
       [] c = "d" -> "D"
       [] c = "e" -> "E"
       [] c = "f" -> "F"
       [] c = "g" -> "G"
       [] c = "h" -> "H"
       [] c = "i" -> "I"
       [] c = "j" -> "J"
       [] c = "k" -> "K"
       [] c = "l" -> "L"
       [] c = "m" -> "M"
       [] c = "n" -> "N"
       [] c = "o" -> "O"
       [] c = "p" -> "P"
       [] c = "q" -> "Q"
       [] c = "r" -> "R"
       [] c = "s" -> "S"
       [] c = "t" -> "T"
       [] c = "u" -> "U"
       [] c = "v" -> "V"
       [] c = "w" -> "W"
       [] c = "x" -> "X"
       [] c = "y" -> "Y"
       [] c = "z" -> "Z"]
ToUpper(state) ==
  [i \in 1..Len(state) |-> IF state[i] \in DOMAIN ToUpperChar THEN ToUpperChar[state[i]]
                                                            ELSE state[i]]

Running == <<"R", "U", "N", "N", "I", "N", "G">>
\* A state mapping that compares the state as it was sent.
containerStatusExact(state) == IF state = Running THEN "online" ELSE "offline"
\* Map state to status.
containerStatus(state) == IF ToUpper(state) = Running THEN "online" ELSE "offline"

\* The container loop of queryUnraidContainers (lines 195-234): one app per
\* container that carries a WebUI label, in container order.
RECURSIVE containerApps(_, _)
containerApps(containers, unraidURL) ==
  IF containers = <<>> THEN <<>>
  ELSE LET container == Head(containers)
           rest == containerApps(Tail(containers), unraidURL)
       IN  IF container.webui = <<>> THEN rest
           ELSE <<[URL |-> processUnraidWebUIURL(container.webui, unraidURL),
                   Description |-> container.image,
                   Status |-> containerStatus(container.state)]>> \o rest

\* ------------------------------------------------------ the outside world
\* What one collection cycle can meet.  The nginx entries are the proxied
\* locations a run finds, in file order; the Unraid entries the containers
\* of one GraphQL answer.
UrlX == <<"h", "t", "t", "p", ":", "/", "/", "a", "/", "x">>
UrlXY == UrlX \o <<"/", "y">>
UnraidURL == <<"h", "t", "t", "p", ":", "/", "/", "a">>

\* The early returns of a cycle after the enabled check.
NginxFailures == {"stat_error", "not_a_directory", "readdir_error"}
UnraidFailures == {"no_config", "ssrf_rejected", "request_failed", "auth_failed",
                   "bad_status", "decode_failed", "graphql_errors"}
Failures(s) == IF s = "nginx" THEN NginxFailures ELSE UnraidFailures

\* DiscoverNginxApps from the parsed entries to the list handed to SetApps.
nginxApps(found) == dedupeAppsByBasePath(skipSeenURLs(found, {}, <<>>))

\* What the backends hold while the sources are started and stopped: the
\* proxied locations of the nginx files in file order (two of them with one
\* URL, one a sub-path), and the containers of the GraphQL answer (two whose
\* WebUI labels resolve to one URL, one without a label).
NginxFound ==
  <<[URL |-> UrlX,  Description |-> "up1", Status |-> "online"],
    [URL |-> UrlX,  Description |-> "up2", Status |-> "online"],
    [URL |-> UrlXY, Description |-> "up1", Status |-> "online"]>>
UnraidAnswer ==
  <<[webui |-> <<"h", "t", "t", "p", ":", "/", "/", "[", "I", "P", "]", "/", "x">>,
     state |-> Running, image |-> "img1"],
    [webui |-> <<>>, state |-> <<"r", "u", "n", "n", "i", "n", "g">>, image |-> "img3"],
    [webui |-> UrlX, state |-> <<"e", "x", "i", "t", "e", "d">>, image |-> "img2"]>>

\* The lists a cycle that completes can hand to SetApps.
Collected(s) ==
  IF s = "nginx" THEN nginxApps(NginxFound)
                 ELSE {containerApps(UnraidAnswer, UnraidURL)}

\* ------------------------------------------------------------------ state
VARIABLES
  enabled,     \* [source -> BOOLEAN]: app.XDiscovery.Enabled
  stop,        \* [source -> channel or Nil]: app.XDiscovery.Stop
  closed,      \* the channels that were closed
  closePanic,  \* a close of a nil or closed channel happened
  wg,          \* [source -> Nat]: app.XDiscovery.Wg, the live workers
  apps,        \* [source -> list of apps]: the cached snapshot
  mu,          \* holder of app.DiscoveryMu for writing, or Nil
  pc,          \* [process -> position in its code]
  src,         \* [process -> the source its call or loop is about]
  loc,         \* [process -> the list of apps its cycle has built]
  fail,        \* [process -> the error its cycle has met, or Nil]
  sel,         \* [worker -> the channel its select waits on]
  nspawn,      \* workers (and channels) created so far
  calls,       \* lifecycle calls issued so far
  noopStart    \* history: a Start call found its source already running

VARIABLES
  overrides,   \* the override store: [URL -> override], for the URLs stored
  apc,         \* [admin -> position in its handler]
  araw,        \* [admin -> the aggregate its handler has read]
  resp,        \* [admin -> its last request and the answer to it]
  abatch,      \* [admin -> the overrides its bulk request is about to save]
  acalls,      \* [admin -> the registry and store calls of its last request]
  nreq         \* admin requests served so far

\* The collectors' functions, followed one call at a time.
VARIABLES
  arg,         \* the input of the call
  ret,         \* its result, <<>> until it has returned
  stack        \* the frames of a recursive call, innermost last

lifeVars == <<enabled, stop, closed, closePanic, wg, apps, mu, pc, src, loc,
              fail, sel, nspawn, calls, noopStart>>
adminVars == <<overrides, apc, araw, resp, abatch, acalls, nreq>>
pureVars == <<arg, ret, stack>>
vars == <<lifeVars, adminVars, pureVars>>

\* No collector function is being followed on its own.
InitPure ==
  /\ arg = <<>>
  /\ ret = <<>>
  /\ stack = <<>>

InitLife ==
  /\ enabled = [s \in Sources |-> FALSE]
  /\ stop = [s \in Sources |-> NilChan]
  /\ closed = {}
  /\ closePanic = FALSE
  /\ wg = [s \in Sources |-> 0]
  /\ apps = [s \in Sources |-> <<>>]
  /\ mu = Nil
  /\ pc = [p \in Procs |-> IF p \in Callers THEN "idle" ELSE "unborn"]
  /\ src = [p \in Procs |-> Nil]
  /\ loc = [p \in Procs |-> <<>>]
  /\ fail = [p \in Procs |-> Nil]
  /\ sel = [w \in WorkerIds |-> NilChan]
  /\ nspawn = 0
  /\ calls = 0
  /\ noopStart = FALSE

\* Where a process goes when its collection cycle returns: a caller is done,
\* a worker enters (or re-enters) its select.
AfterCycle(p) == IF p \in Callers THEN "idle" ELSE "w_sel"
\* A caller that has returned is about no source.
AfterCycleSrc(p) == IF p \in Callers THEN Nil ELSE src[p]

\* ------------------------------------------------------------------ Start
\* Start without its "already running" check.
StartNoCheck(c, s) ==
  /\ pc[c] = "idle"
  /\ calls < MaxCalls
  /\ mu = Nil
  /\ nspawn < MaxWorkers
  /\ calls' = calls + 1
  /\ enabled' = [enabled EXCEPT ![s] = TRUE]
  /\ stop' = [stop EXCEPT ![s] = nspawn + 1]
  /\ wg' = [wg EXCEPT ![s] = @ + 1]
  /\ pc' = [pc EXCEPT ![WorkerName[nspawn + 1]] = "d_read"]
  /\ src' = [src EXCEPT ![WorkerName[nspawn + 1]] = s]
  /\ nspawn' = nspawn + 1
  /\ noopStart' = (noopStart \/ stop[s] # NilChan)
  /\ UNCHANGED <<closed, closePanic, apps, mu, loc, fail, sel>>

  /\ UNCHANGED <<adminVars, pureVars>>
\* StartXDiscoveryLoop(app), from Lock to the deferred Unlock: the call
\* takes effect when it gets DiscoveryMu and runs to its return holding it.
Start(c, s) ==
  /\ pc[c] = "idle"
  /\ calls < MaxCalls
  /\ mu = Nil
  /\ calls' = calls + 1
  /\ IF stop[s] # NilChan
       THEN /\ noopStart' = TRUE
            /\ UNCHANGED <<enabled, stop, wg, pc, src, nspawn>>
       ELSE LET ch == nspawn + 1
                w == WorkerName[ch]
            IN  /\ nspawn < MaxWorkers
                /\ UNCHANGED noopStart
                /\ enabled' = [enabled EXCEPT ![s] = TRUE]
                /\ stop' = [stop EXCEPT ![s] = ch]
                /\ wg' = [wg EXCEPT ![s] = @ + 1]
                /\ pc' = [pc EXCEPT ![w] = "d_read"]
                /\ src' = [src EXCEPT ![w] = s]
                /\ nspawn' = ch
  /\ UNCHANGED <<closed, closePanic, apps, mu, loc, fail, sel>>

  /\ UNCHANGED <<adminVars, pureVars>>

\* ------------------------------------------------------------------- Stop
\* Stop's first critical section without "Stop = nil" after the close.
StopSignalKeepsHandle(c, s) ==
  /\ pc[c] = "idle"
  /\ calls < MaxCalls
  /\ mu = Nil
  /\ calls' = calls + 1
  /\ IF stop[s] # NilChan
       THEN /\ closePanic' = (closePanic \/ stop[s] \in closed)
            /\ closed' = closed \cup {stop[s]}
       ELSE UNCHANGED <<closePanic, closed>>
  /\ pc' = [pc EXCEPT ![c] = "stop_wait"]
  /\ src' = [src EXCEPT ![c] = s]
  /\ UNCHANGED <<stop, enabled, wg, apps, mu, loc, fail, sel, nspawn, noopStart>>

  /\ UNCHANGED <<adminVars, pureVars>>
\* Stop's first critical section without its Unlock: the mutex stays with
\* the caller while it waits for the worker.
StopSignalHoldsLock(c, s) ==
  /\ pc[c] = "idle"
  /\ calls < MaxCalls
  /\ mu = Nil
  /\ mu' = c
  /\ calls' = calls + 1
  /\ IF stop[s] # NilChan
       THEN /\ closePanic' = (closePanic \/ stop[s] \in closed)
            /\ closed' = closed \cup {stop[s]}
            /\ stop' = [stop EXCEPT ![s] = NilChan]
       ELSE UNCHANGED <<closePanic, closed, stop>>
  /\ pc' = [pc EXCEPT ![c] = "stop_wait"]
  /\ src' = [src EXCEPT ![c] = s]
  /\ UNCHANGED <<enabled, wg, apps, loc, fail, sel, nspawn, noopStart>>
  /\ UNCHANGED <<adminVars, pureVars>>
\* StopXDiscoveryLoop(app), first critical section:
\* Lock; if Stop != nil { close(Stop); Stop = nil }; Unlock.
StopSignal(c, s) ==
  /\ pc[c] = "idle"
  /\ calls < MaxCalls
  /\ mu = Nil
  /\ calls' = calls + 1
  /\ IF stop[s] # NilChan
       THEN /\ closePanic' = (closePanic \/ stop[s] \in closed)
            /\ closed' = closed \cup {stop[s]}
            /\ stop' = [stop EXCEPT ![s] = NilChan]
       ELSE UNCHANGED <<closePanic, closed, stop>>
  /\ pc' = [pc EXCEPT ![c] = "stop_wait"]
  /\ src' = [src EXCEPT ![c] = s]
  /\ UNCHANGED <<enabled, wg, apps, mu, loc, fail, sel, nspawn, noopStart>>

  /\ UNCHANGED <<adminVars, pureVars>>
\* Wg.Wait() returns once no worker of the source is alive.
StopWait(c) ==
  /\ pc[c] = "stop_wait"
  /\ wg[src[c]] = 0
  /\ pc' = [pc EXCEPT ![c] = "stop_clear"]
  /\ UNCHANGED <<enabled, stop, closed, closePanic, wg, apps, mu, src, loc, fail, sel, nspawn, calls, noopStart>>

  /\ UNCHANGED <<adminVars, pureVars>>
\* Lock; Enabled = false; ClearApps().
StopClear(c) ==
  /\ pc[c] = "stop_clear"
  /\ mu = Nil
  /\ mu' = c
  /\ enabled' = [enabled EXCEPT ![src[c]] = FALSE]
  /\ apps' = [apps EXCEPT ![src[c]] = <<>>]
  /\ pc' = [pc EXCEPT ![c] = "stop_unlock"]
  /\ UNCHANGED <<stop, closed, closePanic, wg, src, loc, fail, sel, nspawn, calls, noopStart>>

  /\ UNCHANGED <<adminVars, pureVars>>
\* Unlock; return.
StopReturn(c) ==
  /\ pc[c] = "stop_unlock"
  /\ mu = c
  /\ mu' = Nil
  /\ pc' = [pc EXCEPT ![c] = "idle"]
  /\ src' = [src EXCEPT ![c] = Nil]
  /\ UNCHANGED <<enabled, stop, closed, closePanic, wg, apps, loc, fail, sel, nspawn, calls, noopStart>>

  /\ UNCHANGED <<adminVars, pureVars>>
\* ------------------------------------------------------- collection cycle
\* A direct call of the exported DiscoverNginxApps / DiscoverUnraidApps, up
\* to its enabled check: RLock; enabled := Enabled; RUnlock; if !enabled { return }.
Discover(c, s) ==
  /\ pc[c] = "idle"
  /\ calls < MaxCalls
  /\ mu = Nil
  /\ calls' = calls + 1
  /\ IF enabled[s]
       THEN /\ pc' = [pc EXCEPT ![c] = "d_io"]
            /\ src' = [src EXCEPT ![c] = s]
       ELSE UNCHANGED <<pc, src>>
  /\ UNCHANGED <<enabled, stop, closed, closePanic, wg, apps, mu, loc, fail, sel, nspawn, noopStart>>

  /\ UNCHANGED <<adminVars, pureVars>>
\* A worker's call of DiscoverXApps up to its enabled check.
DiscRead(w) ==
  /\ pc[w] = "d_read"
  /\ mu = Nil
  /\ pc' = [pc EXCEPT ![w] = IF enabled[src[w]] THEN "d_io" ELSE "w_sel"]
  /\ UNCHANGED <<enabled, stop, closed, closePanic, wg, apps, mu, src, loc, fail, sel, nspawn, calls, noopStart>>

  /\ UNCHANGED <<adminVars, pureVars>>
\* A cycle that stores its empty result before it looks at the error.
DiscFailClears(p) ==
  /\ pc[p] = "d_io"
  /\ \E kind \in Failures(src[p]) :
       /\ pc' = [pc EXCEPT ![p] = "d_err"]
       /\ fail' = [fail EXCEPT ![p] = kind]
  /\ apps' = [apps EXCEPT ![src[p]] = <<>>]
  /\ UNCHANGED <<enabled, stop, closed, closePanic, wg, mu, src, loc, sel, nspawn, calls, noopStart>>

  /\ UNCHANGED <<adminVars, pureVars>>
\* The cycle meets an error (or an empty Unraid configuration) and logs it.
DiscFail(p) ==
  /\ pc[p] = "d_io"
  /\ \E kind \in Failures(src[p]) :
       /\ pc' = [pc EXCEPT ![p] = "d_err"]
       /\ fail' = [fail EXCEPT ![p] = kind]
  /\ UNCHANGED <<enabled, stop, closed, closePanic, wg, apps, mu, src, loc, sel, nspawn, calls, noopStart>>

  /\ UNCHANGED <<adminVars, pureVars>>
\* The early return after the error.
DiscFailReturn(p) ==
  /\ pc[p] = "d_err"
  /\ pc' = [pc EXCEPT ![p] = AfterCycle(p)]
  /\ src' = [src EXCEPT ![p] = AfterCycleSrc(p)]
  /\ fail' = [fail EXCEPT ![p] = Nil]
  /\ UNCHANGED <<enabled, stop, closed, closePanic, wg, apps, mu, loc, sel, nspawn, calls, noopStart>>

  /\ UNCHANGED <<adminVars, pureVars>>
\* The cycle reads its backend and builds the list of apps.
DiscCollect(p) ==
  /\ pc[p] = "d_io"
  /\ \E found \in Collected(src[p]) :
       /\ pc' = [pc EXCEPT ![p] = "d_set"]
       /\ loc' = [loc EXCEPT ![p] = found]
  /\ UNCHANGED <<enabled, stop, closed, closePanic, wg, apps, mu, src, fail, sel, nspawn, calls, noopStart>>

  /\ UNCHANGED <<adminVars, pureVars>>
\* XDiscovery.SetApps(apps): the snapshot is replaced.
DiscSetApps(p) ==
  /\ pc[p] = "d_set"
  /\ apps' = [apps EXCEPT ![src[p]] = loc[p]]
  /\ pc' = [pc EXCEPT ![p] = AfterCycle(p)]
  /\ src' = [src EXCEPT ![p] = AfterCycleSrc(p)]
  /\ loc' = [loc EXCEPT ![p] = <<>>]
  /\ UNCHANGED <<enabled, stop, closed, closePanic, wg, mu, fail, sel, nspawn, calls, noopStart>>

  /\ UNCHANGED <<adminVars, pureVars>>
\* The cycle panics before SetApps.  In a worker the goroutine's deferred
\* recover catches it; a direct call passes it to its caller.
DiscPanic(p) ==
  /\ pc[p] = "d_io"
  /\ pc' = [pc EXCEPT ![p] = IF p \in Callers THEN "idle" ELSE "w_recover"]
  /\ src' = [src EXCEPT ![p] = AfterCycleSrc(p)]
  /\ UNCHANGED <<enabled, stop, closed, closePanic, wg, apps, mu, loc, fail, sel, nspawn, calls, noopStart>>

  /\ UNCHANGED <<adminVars, pureVars>>
\* ----------------------------------------------------------------- worker
\* The goroutine function returns: ticker.Stop(), Wg.Done().
WorkerExit(w) ==
  /\ wg' = [wg EXCEPT ![src[w]] = @ - 1]
  /\ pc' = [pc EXCEPT ![w] = "done"]
  /\ sel' = [sel EXCEPT ![w] = NilChan]
  /\ UNCHANGED <<enabled, stop, closed, closePanic, apps, mu, src, loc, fail, nspawn, calls, noopStart>>

  /\ UNCHANGED <<adminVars, pureVars>>
\* After the deferred recover has logged the panic.
WRecovered(w) ==
  /\ pc[w] = "w_recover"
  /\ WorkerExit(w)

\* Entering the select: the channel operand app.XDiscovery.Stop is read
\* (without DiscoveryMu) and the goroutine waits on that channel value.
WSelect(w) ==
  /\ pc[w] = "w_sel"
  /\ sel' = [sel EXCEPT ![w] = stop[src[w]]]
  /\ pc' = [pc EXCEPT ![w] = "w_wait"]
  /\ UNCHANGED <<enabled, stop, closed, closePanic, wg, apps, mu, src, loc, fail, nspawn, calls, noopStart>>

  /\ UNCHANGED <<adminVars, pureVars>>
\* case <-Stop: return.  A nil channel is never ready.
WStopped(w) ==
  /\ pc[w] = "w_wait"
  /\ sel[w] # NilChan
  /\ sel[w] \in closed
  /\ WorkerExit(w)

\* case <-ticker.C: DiscoverXApps(app).
WTick(w) ==
  /\ pc[w] = "w_wait"
  /\ pc' = [pc EXCEPT ![w] = "d_read"]
  /\ sel' = [sel EXCEPT ![w] = NilChan]
  /\ UNCHANGED <<enabled, stop, closed, closePanic, wg, apps, mu, src, loc, fail, nspawn, calls, noopStart>>

  /\ UNCHANGED <<adminVars, pureVars>>
\* ------------------------------------------------------- resolveIncludes
\* A config text is a list of pieces: plain text, or an include directive.
\* The directives and the path each names:
IncludePath ==
  [d \in {"include a;", "include b;", "include *;", "include gone;", "include ../x;"} |->
     CASE d = "include a;" -> "a"
       [] d = "include b;" -> "b"
       [] d = "include *;" -> "*"
       [] d = "include gone;" -> "gone"
       [] d = "include ../x;" -> "../x"]
Directives == DOMAIN IncludePath
IncludeFiles == {"a", "b"}
\* urlvalidation.ValidateNginxConfigPath accepts the path.
ValidPath(path) == path # "../x"
\* filepath.Glob: the files the path matches, in sorted order.
Glob(path) ==
  IF path = "*" THEN <<"a", "b">> ELSE IF path \in IncludeFiles THEN <<path>> ELSE <<>>

includeDepthCap == 3
\* A recursion that never reaches its cap.
overCapNever(depth) == FALSE
\* The depth check at the head of resolveIncludes.
overCap(depth) == depth > includeDepthCap

\* A call of resolveIncludes: the pieces still to scan, the pieces written,
\* and the files matched by the directive under expansion.
Frame(content, depth) ==
  [content |-> content, rest |-> content, out |-> <<>>, depth |-> depth, pending |-> <<>>]
Top == stack[Len(stack)]
SetTop(f) == [stack EXCEPT ![Len(stack)] = f]

\* A call returns result: to processConfigFile when it is the outermost
\* call, else into the builder of its caller, followed by a newline.
Deliver(result) ==
  IF Len(stack) = 1
    THEN /\ ret' = <<result>>
         /\ stack' = <<>>
    ELSE LET caller == stack[Len(stack) - 1]
         IN /\ stack' = Append(SubSeq(stack, 1, Len(stack) - 2),
                               [caller EXCEPT !.out = caller.out \o result \o <<"\n">>])
            /\ UNCHANGED ret

\* processConfigFile calls resolveIncludes(content, 0) on the file it read.
ResolveCall ==
  /\ stack = <<>> /\ ret = <<>> /\ arg # <<>>
  /\ stack' = <<Frame(arg.files[arg.top], 0)>>
  /\ UNCHANGED <<arg, ret>>
  /\ UNCHANGED <<lifeVars, adminVars>>

\* depth > 3: the content is returned as it is.
ResolveCapped ==
  /\ stack # <<>>
  /\ overCap(Top.depth)
  /\ Deliver(Top.content)
  /\ UNCHANGED arg
  /\ UNCHANGED <<lifeVars, adminVars>>

\* A piece that is no directive stays.
ResolveText ==
  /\ stack # <<>>
  /\ ~overCap(Top.depth)
  /\ Top.pending = <<>> /\ Top.rest # <<>>
  /\ Head(Top.rest) \notin Directives
  /\ stack' = SetTop([Top EXCEPT !.rest = Tail(Top.rest),
                                 !.out = Append(Top.out, Head(Top.rest))])
  /\ UNCHANGED <<arg, ret>>
  /\ UNCHANGED <<lifeVars, adminVars>>

\* A directive: its path is validated and globbed.
ResolveDirective ==
  /\ stack # <<>>
  /\ ~overCap(Top.depth)
  /\ Top.pending = <<>> /\ Top.rest # <<>>
  /\ Head(Top.rest) \in Directives
  /\ LET includePath == IncludePath[Head(Top.rest)]
         scanned == [Top EXCEPT !.rest = Tail(Top.rest)]
     IN stack' = SetTop(
          IF ~ValidPath(includePath)
            THEN [scanned EXCEPT !.out = Append(Top.out, "# include skipped (validation failed)")]
          ELSE IF Glob(includePath) = <<>>
            THEN [scanned EXCEPT !.out = Append(Top.out, "# include not found")]
          ELSE [scanned EXCEPT !.pending = Glob(includePath)])
  /\ UNCHANGED <<arg, ret>>
  /\ UNCHANGED <<lifeVars, adminVars>>

\* A matched file that cannot be resolved, stat-ed or read, or is too
\* large, is skipped.
ResolveSkip ==
  /\ stack # <<>>
  /\ Top.pending # <<>>
  /\ Head(Top.pending) \in arg.unreadable
  /\ stack' = SetTop([Top EXCEPT !.pending = Tail(Top.pending)])
  /\ UNCHANGED <<arg, ret>>
  /\ UNCHANGED <<lifeVars, adminVars>>

\* A matched file is read and resolved one level deeper.
ResolveInclude ==
  /\ stack # <<>>
  /\ Top.pending # <<>>
  /\ Head(Top.pending) \notin arg.unreadable
  /\ stack' = Append(SetTop([Top EXCEPT !.pending = Tail(Top.pending)]),
                     Frame(arg.files[Head(Top.pending)], Top.depth + 1))
  /\ UNCHANGED <<arg, ret>>
  /\ UNCHANGED <<lifeVars, adminVars>>

\* The whole content is scanned: the call returns what it wrote.
ResolveReturn ==
  /\ stack # <<>>
  /\ ~overCap(Top.depth)
  /\ Top.pending = <<>> /\ Top.rest = <<>>
  /\ Deliver(Top.out)
  /\ UNCHANGED arg
  /\ UNCHANGED <<lifeVars, adminVars>>

\* The include graphs followed: two files of at most two pieces each, so
\* that a file can include itself (once or twice), the two can include
\* each other, and a glob can match both.
IncludeInputs ==
  LET Pieces == Directives \cup {"server {}"}
      IncludeContents ==
        {<<>>} \cup {<<x>> : x \in Pieces} \cup {<<x, y>> : x \in Pieces, y \in Pieces}
  IN  [files : [IncludeFiles -> IncludeContents], top : {"a"}, unreadable : {{}, {"b"}}]

\* ------------------------------------------------ nginx server blocks
\* The location paths met: blocklisted ones with and without trailing
\* slashes, app paths, a sub-path, an upper-case path and a regex path.
LocationPaths ==
  {<<"/">>, <<"/", "/">>, <<"/", "a", "p", "i">>,
   <<"/", "a", "p", "i", "/">>, <<"/", "h", "e", "a", "l", "t", "h">>, <<"/", "h", "e", "a", "l", "t", "h", "z", "/">>,
   <<"/", "m", "e", "t", "r", "i", "c", "s">>, <<"/", "s", "t", "a", "t", "i", "c", "/">>, <<"/", "a", "s", "s", "e", "t", "s">>,
   <<"/", "x">>, <<"/", "x", "/">>, <<"/", "x", "/", "y">>,
   <<"/", "A", "P", "I">>, <<"/", "x", "+">>}
\* A second server block of the same host, listening with ssl.
SslBlock ==
  [host |-> <<"a">>, protocol |-> <<"h", "t", "t", "p", "s">>, upstream |-> "",
   locations |-> <<[path |-> <<"/", "a", "p", "i", "/">>, upstream |-> "up2"],
                   [path |-> <<"/", "x">>, upstream |-> "up2"]>>]
\* The parsed server blocks of a run: one block with up to two locations,
\* alone or followed by SslBlock.
ServerBlocks ==
  LET Locations == [path : LocationPaths, upstream : {"", "up1"}]
  IN  [host : {<<"a">>}, protocol : {<<"h", "t", "t", "p">>, <<"h", "t", "t", "p", "s">>},
       upstream : {"", "up0"},
       locations : {<<>>} \cup {<<x>> : x \in Locations}
                         \cup {<<x, y>> : x \in Locations, y \in Locations}]
NginxInputs == {[blocks |-> <<b>> \o rest] : b \in ServerBlocks, rest \in {<<>>, <<SslBlock>>}}

\* One run of DiscoverNginxApps over the parsed blocks, up to SetApps.
RunDiscoverNginx ==
  /\ arg # <<>> /\ ret = <<>>
  /\ \E snapshot \in DiscoverNginxApps(arg.blocks) : ret' = <<snapshot>>
  /\ UNCHANGED <<arg, stack>>
  /\ UNCHANGED <<lifeVars, adminVars>>

\* One run of DiscoverNginxApps in which one server block of the
\* configuration is met a second time, after the others (its file is
\* reached directly and through an include): the same seenURLs and apps
\* serve the whole run.
RunDiscoverRepeated ==
  /\ arg # <<>> /\ ret = <<>>
  /\ \E i \in 1..Len(arg.blocks) :
       \E snapshot \in DiscoverNginxApps(Append(arg.blocks, arg.blocks[i])) :
          /\ ret' = <<snapshot>>
          /\ stack' = <<i>>
  /\ UNCHANGED arg
  /\ UNCHANGED <<lifeVars, adminVars>>

\* ------------------------------------------- comments and brace matching
\* The longest text after a "server {" that is examined.
MaxText == 4
\* commentRe.ReplaceAllString(configContent, ""): `(?m)#.*$` matches from
\* every # to the end of its line; the newline stays.
stripComments(s) ==
  LET RECURSIVE strip(_, _)
      strip(t, inComment) ==
        IF t = <<>> THEN <<>>
        ELSE IF Head(t) = "\n" THEN <<"\n">> \o strip(Tail(t), FALSE)
        ELSE IF inComment \/ Head(t) = "#" THEN strip(Tail(t), TRUE)
        ELSE <<Head(t)>> \o strip(Tail(t), FALSE)
  IN  strip(s, FALSE)
\* extractBlock: the text up to the brace that closes the block and the
\* index of that brace (counted from 0), or the whole text and -1.
extractBlock(s) ==
  LET RECURSIVE scan(_, _, _)
      scan(i, braceCount, inComment) ==
        IF i > Len(s) THEN [block |-> s, end |-> -1]
        ELSE IF s[i] = "\n" THEN scan(i + 1, braceCount, FALSE)
        ELSE IF inComment THEN scan(i + 1, braceCount, TRUE)
        ELSE IF s[i] = "#" THEN scan(i + 1, braceCount, TRUE)
        ELSE IF s[i] = "{" THEN scan(i + 1, braceCount + 1, FALSE)
        ELSE IF s[i] = "}"
          THEN IF braceCount - 1 = 0 THEN [block |-> SubSeq(s, 1, i - 1), end |-> i - 1]
               ELSE scan(i + 1, braceCount - 1, FALSE)
        ELSE scan(i + 1, braceCount, FALSE)
  IN  scan(1, 1, FALSE)
\* The texts that follow a "server {": braces, #, double quotes, a letter
\* and line ends.
BlockInputs ==
  LET Chars == {"{", "}", "#", "\"", "a", "\n"}
  IN  {[content |-> s] : s \in UNION {[1..n -> Chars] : n \in 0..MaxText}}
\* processConfigFile on one piece: strip the comments, then extractBlock.
RunExtractBlock ==
  /\ arg # <<>> /\ ret = <<>>
  /\ LET configContent == stripComments(arg.content)
     IN  ret' = <<[configContent |-> configContent, found |-> extractBlock(configContent)]>>
  /\ UNCHANGED <<arg, stack>>
  /\ UNCHANGED <<lifeVars, adminVars>>

\* -------------------------------------------------- sub-path dedup
UrlLidarr == <<"h", "t", "t", "p", ":", "/", "/", "a", "/", "l", "i", "d", "a", "r", "r">>
UrlLidarrApi == UrlLidarr \o <<"/", "a", "p", "i">>
\* The URLs deduplicated: a path, the same with trailing slashes, a
\* sub-path as long as one of those, a path that only shares its letters,
\* the bare host, another host and another scheme.
\* The lists handed to dedupeAppsByBasePath: up to three apps, in any
\* order, repeats included.
DedupeInputs ==
  LET DedupeURLs ==
        {UrlX, UrlXY, UrlLidarr, UrlLidarrApi,
         <<"h", "t", "t", "p", ":", "/", "/", "a", "/", "x", "/">>,
         <<"h", "t", "t", "p", ":", "/", "/", "a", "/", "x", "/", "/">>,
         <<"h", "t", "t", "p", ":", "/", "/", "a", "/", "x", "y">>,
         <<"h", "t", "t", "p", ":", "/", "/", "b", "/", "x", "/", "y">>,
         <<"h", "t", "t", "p", ":", "/", "/", "a">>,
         <<"h", "t", "t", "p", "s", ":", "/", "/", "a", "/", "x">>}
      Apps == {[URL |-> u, Description |-> "up1", Status |-> "online"] : u \in DedupeURLs}
  IN  {[apps |-> as] : as \in {<<>>} \cup {<<x>> : x \in Apps}
                              \cup {<<x, y>> : x \in Apps, y \in Apps}
                              \cup {<<x, y, z>> : x \in Apps, y \in Apps, z \in Apps}}

\* One call of dedupeAppsByBasePath.
RunDedupe ==
  /\ arg # <<>> /\ ret = <<>>
  /\ \E result \in dedupeAppsByBasePath(arg.apps) : ret' = <<result>>
  /\ UNCHANGED <<arg, stack>>
  /\ UNCHANGED <<lifeVars, adminVars>>

\* ------------------------------------------------ WebUI URL templates
TemplateURL == <<"h", "t", "t", "p", ":", "/", "/", "[", "I", "P", "]", ":", "[", "P", "O", "R", "T", ":", "8", "0", "8", "0", "]", "/">>
ServerURL == <<"h", "t", "t", "p", ":", "/", "/", "1", "9", "2", ".", "1", "6", "8", ".", "1", ".", "1", "0", "0">>
\* The pieces WebUI labels are put together from: whole placeholders and
\* broken ones.
\* The calls followed: every label of up to three pieces against a server
\* URL without and with a port, and the template of the test table.
WebUIInputs ==
  LET WebUIPieces ==
        {<<"[", "I", "P", "]">>, <<"[", "P", "O", "R", "T", ":", "8", "0", "]">>, <<"[", "P", "O", "R", "T", ":", "]">>,
         <<"[", "P", "O", "R", "T", ":">>, <<"[", "I">>, <<"P", "]">>,
         <<"]">>, <<":">>}
  IN  {[webUIURL |-> w, unraidURL |-> u] :
         w \in {<<>>} \cup WebUIPieces
                \cup {x \o y : x \in WebUIPieces, y \in WebUIPieces}
                \cup {x \o y \o z : x \in WebUIPieces, y \in WebUIPieces, z \in WebUIPieces},
         u \in {UnraidURL, UnraidURL \o <<":", "8", "4", "4", "3">>}}
      \cup {[webUIURL |-> TemplateURL, unraidURL |-> ServerURL]}

\* One call of processUnraidWebUIURL.
RunWebUIURL ==
  /\ arg # <<>> /\ ret = <<>>
  /\ ret' = <<processUnraidWebUIURL(arg.webUIURL, arg.unraidURL)>>
  /\ UNCHANGED <<arg, stack>>
  /\ UNCHANGED <<lifeVars, adminVars>>

\* processUnraidWebUIURL step by step.  The one frame on the stack holds
\* the local `result`.
\* Entry: url.Parse, Hostname and the [IP] replacement.
ScanCall ==
  /\ arg # <<>> /\ ret = <<>> /\ stack = <<>>
  /\ stack' = <<[result |-> ReplaceAll(arg.webUIURL, IPPlaceholder, Hostname(arg.unraidURL))]>>
  /\ UNCHANGED <<arg, ret>>
  /\ UNCHANGED <<lifeVars, adminVars>>
\* A return from the loop although a placeholder may remain.
ScanReturnEarly ==
  /\ stack # <<>>
  /\ ret' = <<Top.result>>
  /\ stack' = <<>>
  /\ UNCHANGED arg
  /\ UNCHANGED <<lifeVars, adminVars>>
\* One iteration of the loop that finds "[PORT:" and a "]" after it: the
\* placeholder gives way to its default port.
ScanStrip ==
  /\ stack # <<>>
  /\ LET result == Top.result
         start == IndexOf(result, PortOpen)
         end == IF start = 0 THEN 0 ELSE IndexOf(SubSeq(result, start, Len(result)), <<"]">>)
         close == start + end - 1
         defaultPort == SubSeq(result, start + 6, close - 1)
     IN  /\ start # 0 /\ end # 0
         /\ stack' = SetTop([result |-> SubSeq(result, 1, start - 1) \o defaultPort
                                          \o SubSeq(result, close + 1, Len(result))])
  /\ UNCHANGED <<arg, ret>>
  /\ UNCHANGED <<lifeVars, adminVars>>
\* The iteration that finds no "[PORT:", or no "]" after it: break and
\* return result.
ScanReturn ==
  /\ stack # <<>>
  /\ LET result == Top.result
         start == IndexOf(result, PortOpen)
         end == IF start = 0 THEN 0 ELSE IndexOf(SubSeq(result, start, Len(result)), <<"]">>)
     IN  /\ start = 0 \/ end = 0
         /\ ret' = <<result>>
  /\ stack' = <<>>
  /\ UNCHANGED arg
  /\ UNCHANGED <<lifeVars, adminVars>>

\* ----------------------------------------------- queryUnraidContainers
\* What the server would answer to the POST: a transport error or a
\* response with its status code, a body that decodes or not, GraphQL
\* errors, and the containers (without a WebUI label, with a template,
\* with a plain URL; in the states the API may send, in mixed case).
UnraidResponses ==
  LET ContainerStates ==
        {<<"R", "U", "N", "N", "I", "N", "G">>, <<"r", "u", "n", "n", "i", "n", "g">>,
         <<"R", "u", "n", "n", "i", "n", "g">>, <<"R", "U", "N", "N", "I", "N">>,
         <<"e", "x", "i", "t", "e", "d">>, <<"P", "A", "U", "S", "E", "D">>}
      Containers ==
        [webui : {<<>>, <<"h", "t", "t", "p", ":", "/", "/", "[", "I", "P", "]", "/", "x">>, UrlXY},
         state : ContainerStates, image : {"img1"}]
  IN  [err : BOOLEAN, StatusCode : {200, 401, 403, 500}, decodes : BOOLEAN,
       Errors : {<<>>, <<"boom">>},
       Containers : {<<>>, UnraidAnswer} \cup {<<x>> : x \in Containers}
                      \cup {<<x, y>> : x \in Containers, y \in Containers}]
\* The calls followed: the verdict of ValidateDiscoveryURL on the
\* configured URL, and the server's answer.
UnraidInputs ==
  {[unraidURL |-> UnraidURL, accepted |-> a, response |-> r] :
     a \in BOOLEAN,
     r \in {x \in UnraidResponses :
              (x.err \/ x.StatusCode # 200 \/ ~x.decodes \/ x.Errors # <<>>)
                 => x.Containers = UnraidAnswer}}

\* strings.TrimSuffix(unraidURL, "/") + "/graphql"
graphqlEndpoint(unraidURL) ==
  (IF HasSuffix(unraidURL, <<"/">>) THEN SubSeq(unraidURL, 1, Len(unraidURL) - 1) ELSE unraidURL)
    \o <<"/", "g", "r", "a", "p", "h", "q", "l">>

\* The call state of queryUnraidContainers: where it stands and the
\* requests its client has sent.
QueryFrame(at, requests) == [pc |-> at, requests |-> requests]
\* return nil, err
QueryError(err) == <<[apps |-> <<>>, err |-> err]>>

\* A call that builds its request without asking ValidateDiscoveryURL.
QueryValidateSkipped ==
  /\ arg # <<>> /\ ret = <<>> /\ stack = <<>>
  /\ stack' = <<QueryFrame("do", <<>>)>>
  /\ UNCHANGED <<arg, ret>>
  /\ UNCHANGED <<lifeVars, adminVars>>
\* The SSRF check at the head of queryUnraidContainers, and the building
\* of the request when it passes.
QueryValidate ==
  /\ arg # <<>> /\ ret = <<>> /\ stack = <<>>
  /\ IF ~arg.accepted
       THEN /\ ret' = QueryError("Unraid SSRF protection")
            /\ stack' = <<QueryFrame("returned", <<>>)>>
       ELSE /\ stack' = <<QueryFrame("do", <<>>)>>
            /\ UNCHANGED ret
  /\ UNCHANGED arg
  /\ UNCHANGED <<lifeVars, adminVars>>

\* client.Do and everything after it: the request goes out, and the
\* answer is turned into apps or into an error.
QueryDo ==
  /\ stack # <<>> /\ Top.pc = "do"
  /\ stack' = <<QueryFrame("returned", Append(Top.requests, graphqlEndpoint(arg.unraidURL)))>>
  /\ LET response == arg.response
     IN ret' =
          IF response.err THEN QueryError("request failed")
          ELSE IF response.StatusCode = 401 \/ response.StatusCode = 403
            THEN QueryError("authentication failed")
          ELSE IF response.StatusCode # 200 THEN QueryError("API returned status")
          ELSE IF ~response.decodes THEN QueryError("failed to decode response")
          ELSE IF Len(response.Errors) > 0 THEN QueryError("GraphQL error")
          ELSE <<[apps |-> containerApps(response.Containers, arg.unraidURL), err |-> ""]>>
  /\ UNCHANGED arg
  /\ UNCHANGED <<lifeVars, adminVars>>

\* ------------------------------------------------- registry and overrides
\* A Go slice: nil, or a (possibly empty) list.
NilSlice == [isNil |-> TRUE, elems |-> <<>>]
Slice(e) == [isNil |-> FALSE, elems |-> e]

\* The aggregate of the registry: the snapshots of the enabled sources, each
\* record tagged with the source that produced it.
TagApps(s) == [i \in 1..Len(apps[s]) |-> [URL |-> apps[s][i].URL, Source |-> s]]
GetAllRawDiscoveredApps ==
  (IF enabled["nginx"] THEN TagApps("nginx") ELSE <<>>)
    \o (IF enabled["unraid"] THEN TagApps("unraid") ELSE <<>>)

\* The override store, keyed by URL.
HasOverride(url) == url \in DOMAIN overrides
GetAllDiscoveredOverrides == overrides
SaveOverrideIn(st, o) ==
  [u \in DOMAIN st \cup {o.URL} |-> IF u = o.URL THEN o ELSE st[u]]
SaveDiscoveredOverride(o) == SaveOverrideIn(overrides, o)
\* The records of os saved one after the other: for a URL that os names
\* more than once the last record stays.
SaveBatchIn(st, os) ==
  LET at(u) == {i \in 1..Len(os) : os[i].URL = u}
  IN [u \in DOMAIN st \cup {os[i].URL : i \in 1..Len(os)} |->
        IF at(u) = {} THEN st[u] ELSE os[CHOOSE i \in at(u) : \A j \in at(u) : j <= i]]
\* A batch that fails after k of its records may leave those k written.
SaveDiscoveredOverridesBatch(os, k) == SaveBatchIn(overrides, SubSeq(os, 1, k))
DeleteDiscoveredOverride(url) ==
  [u \in DOMAIN overrides \ {url} |-> overrides[u]]

NoResp == [op |-> "none", status |-> 0, error |-> "", active |-> <<>>, stale |-> {},
           updated |-> 0]
Answer(op, status) == [NoResp EXCEPT !.op = op, !.status = status]
\* http.Error(w, error, status)
Error(op, status, error) == [Answer(op, status) EXCEPT !.error = error]
\* The handler of a calls the registry or the store.
Calls(a, names) == acalls' = [acalls EXCEPT ![a] = names]

InitAdmin ==
  /\ overrides = <<>>
  /\ apc = [a \in Admins |-> "idle"]
  /\ araw = [a \in Admins |-> <<>>]
  /\ resp = [a \in Admins |-> NoResp]
  /\ abatch = [a \in Admins |-> <<>>]
  /\ acalls = [a \in Admins |-> <<>>]
  /\ nreq = 0

\* A request is served: guard and count shared by the handlers.
Serve(a) ==
  /\ apc[a] = "idle"
  /\ nreq < MaxRequests
  /\ nreq' = nreq + 1

\* ---- AdminDiscoveredAppsHandler
\* GET, first half: the aggregate is read.
AdminGetRead(a) ==
  /\ Serve(a)
  /\ araw' = [araw EXCEPT ![a] = GetAllRawDiscoveredApps]
  /\ Calls(a, <<"GetAllRawDiscoveredApps">>)
  /\ apc' = [apc EXCEPT ![a] = "get_store"]
  /\ UNCHANGED <<overrides, resp, abatch>>
  /\ UNCHANGED <<lifeVars, pureVars>>

\* The URLs of the aggregate a handler has read.
activeURLs(rawApps) == {rawApps[i].URL : i \in 1..Len(rawApps)}
\* A GET that reports every stored override as stale.
staleAll(rawApps, allOverrides) ==
  {allOverrides[u] : u \in DOMAIN allOverrides}
\* The overrides whose URL the aggregate does not hold (in map order, which
\* Go leaves unspecified: a set here).
staleOverrides(rawApps, allOverrides) ==
  {allOverrides[u] : u \in {v \in DOMAIN allOverrides : v \notin activeURLs(rawApps)}}

\* A GET that prunes the stale overrides it reports.
AdminGetPrunes(a) ==
  /\ apc[a] = "get_store"
  /\ resp' = [resp EXCEPT ![a] =
       [Answer("GET", 200) EXCEPT
          !.active = araw[a],
          !.stale = staleOverrides(araw[a], GetAllDiscoveredOverrides)]]
  /\ overrides' = [u \in DOMAIN overrides \cap activeURLs(araw[a]) |-> overrides[u]]
  /\ araw' = [araw EXCEPT ![a] = <<>>]
  /\ Calls(a, Append(acalls[a], "GetAllDiscoveredOverrides"))
  /\ apc' = [apc EXCEPT ![a] = "idle"]
  /\ UNCHANGED <<abatch, nreq>>
  /\ UNCHANGED <<lifeVars, pureVars>>

\* GET, second half: the store is read and the response is built.
AdminGetRespond(a) ==
  /\ apc[a] = "get_store"
  /\ resp' = [resp EXCEPT ![a] =
       [Answer("GET", 200) EXCEPT
          !.active = araw[a],
          !.stale = staleOverrides(araw[a], GetAllDiscoveredOverrides)]]
  /\ araw' = [araw EXCEPT ![a] = <<>>]
  /\ Calls(a, Append(acalls[a], "GetAllDiscoveredOverrides"))
  /\ apc' = [apc EXCEPT ![a] = "idle"]
  /\ UNCHANGED <<overrides, abatch, nreq>>
  /\ UNCHANGED <<lifeVars, pureVars>>

\* A PUT that saves the override as it was decoded.
putOverrideAsDecoded(o) == o

\* The override a PUT saves: Groups defaults to the empty list.
putOverride(o) == IF o.Groups.isNil THEN [o EXCEPT !.Groups = Slice(<<>>)] ELSE o

\* PUT with request r, whose body decodes to the override r.o (r.decoded is
\* FALSE for a body that is not JSON); saved is the store's answer to the save.
AdminPut(a, r, saved) ==
  /\ Serve(a)
  /\ IF ~r.decoded THEN
       /\ resp' = [resp EXCEPT ![a] = Error("PUT", 400, "Invalid JSON")]
       /\ Calls(a, <<>>)
       /\ UNCHANGED overrides
     ELSE IF r.o.URL = <<>> THEN
       /\ resp' = [resp EXCEPT ![a] = Error("PUT", 400, "URL is required")]
       /\ Calls(a, <<>>)
       /\ UNCHANGED overrides
     ELSE /\ Calls(a, <<"SaveDiscoveredOverride">>)
          /\ IF ~saved THEN
               /\ resp' = [resp EXCEPT ![a] = Error("PUT", 500, "Failed to save")]
               /\ UNCHANGED overrides
             ELSE
               /\ overrides' = SaveDiscoveredOverride(putOverride(r.o))
               /\ resp' = [resp EXCEPT ![a] = Answer("PUT", 200)]
  /\ UNCHANGED <<apc, araw, abatch>>
  /\ UNCHANGED <<lifeVars, pureVars>>

\* DELETE with query parameter url; deleted is the store's answer.
AdminDelete(a, url, deleted) ==
  /\ Serve(a)
  /\ IF url = <<>> THEN
       /\ resp' = [resp EXCEPT ![a] = Error("DELETE", 400, "URL parameter required")]
       /\ Calls(a, <<>>)
       /\ UNCHANGED overrides
     ELSE /\ Calls(a, <<"DeleteDiscoveredOverride">>)
          /\ IF ~deleted THEN
               /\ resp' = [resp EXCEPT ![a] = Error("DELETE", 500, "Failed to delete")]
               /\ UNCHANGED overrides
             ELSE
               /\ overrides' = DeleteDiscoveredOverride(url)
               /\ resp' = [resp EXCEPT ![a] = Answer("DELETE", 200)]
  /\ UNCHANGED <<apc, araw, abatch>>
  /\ UNCHANGED <<lifeVars, pureVars>>

\* Any other method.
AdminOther(a, method) ==
  /\ Serve(a)
  /\ resp' = [resp EXCEPT ![a] = Error(method, 405, "Method not allowed")]
  /\ Calls(a, <<>>)
  /\ UNCHANGED <<overrides, apc, araw, abatch>>
  /\ UNCHANGED <<lifeVars, pureVars>>

\* ---- BulkDiscoveredAppsHandler
maxBulkURLs == 100

\* urlToSource[url]: the source of the last record of the aggregate with
\* that URL, "" when there is none.
urlToSource(rawApps, url) ==
  LET at == {i \in 1..Len(rawApps) : rawApps[i].URL = url}
  IN IF at = {} THEN ""
     ELSE rawApps[CHOOSE i \in at : \A j \in at : j <= i].Source

\* A "show" that takes the request's category also when it is empty.
bulkOverrideSetsCategory(req, rawApps, url) ==
  LET existing == IF HasOverride(url) THEN overrides[url]
                  ELSE [URL |-> url, Source |-> urlToSource(rawApps, url),
                        Hidden |-> FALSE, Category |-> "", Groups |-> Slice(<<>>)]
      shown == [existing EXCEPT !.Hidden = FALSE, !.Category = req.Category]
  IN IF Len(req.Groups.elems) > 0 THEN [shown EXCEPT !.Groups = req.Groups]
     ELSE shown

\* The override a "show" request builds for one URL.
bulkOverride(req, rawApps, url) ==
  LET existing == IF HasOverride(url) THEN overrides[url]
                  ELSE [URL |-> url, Source |-> urlToSource(rawApps, url),
                        Hidden |-> FALSE, Category |-> "", Groups |-> Slice(<<>>)]
      shown == [existing EXCEPT !.Hidden = FALSE]
      categorised == IF req.Category # "" THEN [shown EXCEPT !.Category = req.Category]
                     ELSE shown
  IN IF Len(req.Groups.elems) > 0 THEN [categorised EXCEPT !.Groups = req.Groups]
     ELSE categorised

\* The checks with the action looked at before the number of URLs.
bulkCheckActionFirst(r) ==
  IF r.method # "POST" THEN [status |-> 405, error |-> "Method not allowed"]
  ELSE IF ~r.decoded THEN [status |-> 400, error |-> "Invalid JSON"]
  ELSE IF r.req.Action # "show" THEN [status |-> 400, error |-> "Invalid action"]
  ELSE IF Len(r.req.URLs) = 0 THEN [status |-> 400, error |-> "No URLs provided"]
  ELSE IF Len(r.req.URLs) > maxBulkURLs
    THEN [status |-> 400, error |-> "Too many URLs (max 100)"]
  ELSE [status |-> 200, error |-> ""]

\* The checks with a limit that already rejects maxBulkURLs URLs.
bulkCheckRejectsLimit(r) ==
  IF r.method # "POST" THEN [status |-> 405, error |-> "Method not allowed"]
  ELSE IF ~r.decoded THEN [status |-> 400, error |-> "Invalid JSON"]
  ELSE IF Len(r.req.URLs) = 0 THEN [status |-> 400, error |-> "No URLs provided"]
  ELSE IF Len(r.req.URLs) >= maxBulkURLs
    THEN [status |-> 400, error |-> "Too many URLs (max 100)"]
  ELSE IF r.req.Action # "show" THEN [status |-> 400, error |-> "Invalid action"]
  ELSE [status |-> 200, error |-> ""]

\* The checks of a bulk request, in the handler's order: the answer of the
\* first one that fails, status 200 when all pass.
bulkCheck(r) ==
  IF r.method # "POST" THEN [status |-> 405, error |-> "Method not allowed"]
  ELSE IF ~r.decoded THEN [status |-> 400, error |-> "Invalid JSON"]
  ELSE IF Len(r.req.URLs) = 0 THEN [status |-> 400, error |-> "No URLs provided"]
  ELSE IF Len(r.req.URLs) > maxBulkURLs
    THEN [status |-> 400, error |-> "Too many URLs (max 100)"]
  ELSE IF r.req.Action # "show" THEN [status |-> 400, error |-> "Invalid action"]
  ELSE [status |-> 200, error |-> ""]

\* The bulk request r with body r.req (r.decoded is FALSE for a body that is
\* not JSON), up to the batch save: the checks, the read of the aggregate, the
\* lookups and the list of overrides to save.
Bulk(a, r) ==
  /\ Serve(a)
  /\ IF bulkCheck(r).status # 200 THEN
       /\ resp' = [resp EXCEPT ![a] = Error("BULK", bulkCheck(r).status, bulkCheck(r).error)]
       /\ Calls(a, <<>>)
       /\ UNCHANGED <<apc, abatch>>
     ELSE
       LET rawApps == GetAllRawDiscoveredApps
       IN /\ abatch' = [abatch EXCEPT ![a] =
                 [i \in 1..Len(r.req.URLs) |->
                    bulkOverride(r.req, rawApps, r.req.URLs[i])]]
          /\ Calls(a, <<"GetAllRawDiscoveredApps">>
                         \o [i \in 1..Len(r.req.URLs) |-> "GetDiscoveredOverride"])
          /\ apc' = [apc EXCEPT ![a] = "bulk_save"]
          /\ UNCHANGED resp
  /\ UNCHANGED <<overrides, araw>>
  /\ UNCHANGED <<lifeVars, pureVars>>

\* The batch save and the answer; a failed batch leaves k records written.
BulkSave(a, saved, k) ==
  /\ apc[a] = "bulk_save"
  /\ IF saved THEN
       /\ k = Len(abatch[a])
       /\ resp' = [resp EXCEPT ![a] =
            [Answer("BULK", 200) EXCEPT !.updated = Len(abatch[a])]]
     ELSE
       /\ k < Len(abatch[a])
       /\ resp' = [resp EXCEPT ![a] = Error("BULK", 500, "Failed to save")]
  /\ overrides' = SaveDiscoveredOverridesBatch(abatch[a], k)
  /\ Calls(a, Append(acalls[a], "SaveDiscoveredOverridesBatch"))
  /\ abatch' = [abatch EXCEPT ![a] = <<>>]
  /\ apc' = [apc EXCEPT ![a] = "idle"]
  /\ UNCHANGED <<araw, nreq>>
  /\ UNCHANGED <<lifeVars, pureVars>>

\* ---- the requests the administrators send
AdminURLs == {UrlX, UrlXY}
PutBodies ==
  [URL : AdminURLs \cup {<<>>}, Source : {""}, Hidden : {TRUE}, Category : {""},
   Groups : {NilSlice}]
PutRequests ==
  [decoded : {TRUE}, o : PutBodies]
    \cup [decoded : {FALSE}, o : {b \in PutBodies : b.URL = <<>>}]
BulkBodies ==
  [URLs : {<<>>, <<UrlXY>>, <<UrlX, UrlXY>>}, Action : {"show", "hide"},
   Category : {"Media"}, Groups : {NilSlice}]
BulkRequests ==
  [method : {"POST"}, decoded : {TRUE}, req : BulkBodies]
    \cup [method : {"GET"}, decoded : {TRUE}, req : {b \in BulkBodies : b.URLs = <<>>}]
    \cup [method : {"POST"}, decoded : {FALSE}, req : {b \in BulkBodies : b.URLs = <<>>}]

AdminNext ==
  \E a \in Admins :
    \/ AdminGetRead(a)
    \/ AdminGetRespond(a)
    \/ \E r \in PutRequests, saved \in BOOLEAN : AdminPut(a, r, saved)
    \/ \E url \in AdminURLs \cup {<<>>}, deleted \in BOOLEAN : AdminDelete(a, url, deleted)
    \/ \E method \in {"POST"} : AdminOther(a, method)
    \/ \E r \in BulkRequests : Bulk(a, r)
    \/ \E saved \in BOOLEAN, k \in 0..2 : BulkSave(a, saved, k)

\* ---- bulk requests around the limit
Digits == <<"0", "1", "2", "3", "4", "5", "6", "7", "8", "9">>
\* fmt.Sprintf("%d", i)
RECURSIVE Decimal(_)
Decimal(i) ==
  IF i < 10 THEN <<Digits[i + 1]>> ELSE Decimal(i \div 10) \o <<Digits[(i % 10) + 1]>>
\* n distinct URLs: http://a/x/0, http://a/x/1, ...
ManyURLs(n) == [i \in 1..n |-> UrlX \o <<"/">> \o Decimal(i - 1)]
BulkCounts == {0, 1, 2, maxBulkURLs - 1, maxBulkURLs, maxBulkURLs + 1}
BulkLimitRequests ==
  [method : {"POST", "GET"}, decoded : BOOLEAN,
   req : [URLs : {ManyURLs(n) : n \in BulkCounts}, Action : {"show", "hide"},
          Category : {"Media"}, Groups : {NilSlice}]]

\* ---- "show" requests over overrides that carry a category and groups
ShowPutRequests ==
  [decoded : {TRUE},
   o : {[URL |-> UrlXY, Source |-> "manual", Hidden |-> TRUE, Category |-> "Tools",
         Groups |-> Slice(<<"admins">>)]}]
ShowRequests ==
  [method : {"POST"}, decoded : {TRUE},
   req : [URLs : {<<UrlX, UrlXY>>}, Action : {"show"}, Category : {"", "Media"},
          Groups : {NilSlice, Slice(<<>>), Slice(<<"users", "family">>)}]]

\* ---------------------------------------------------------- specification
Init == InitLife /\ InitAdmin /\ InitPure

\* The steps of the discovery lifecycle when the callers in C issue calls on
\* the sources in S.
LifeNext(C, S) ==
  \/ \E c \in C, s \in S : Start(c, s) \/ StopSignal(c, s) \/ Discover(c, s)
  \/ \E c \in C : StopWait(c) \/ StopClear(c) \/ StopReturn(c)
  \/ \E p \in C \cup WorkerIds : DiscFail(p) \/ DiscFailReturn(p) \/ DiscCollect(p)
                                  \/ DiscSetApps(p) \/ DiscPanic(p)
  \/ \E w \in WorkerIds : DiscRead(w) \/ WRecovered(w) \/ WSelect(w) \/ WStopped(w)
                            \/ WTick(w)

Next == LifeNext(Callers, Sources)

\* Concurrent callers starting, stopping and refreshing the two sources.
Spec == Init /\ [][Next]_vars

\* Fair scheduling: every goroutine that can take its next step takes it, a
\* collection cycle ends, time passes (ticks arrive), and a select with a
\* ready stop case cannot pick the tick forever.  New calls are not forced.
Fairness ==
  /\ \A c \in Callers : /\ WF_vars(StopWait(c))
                        /\ WF_vars(StopClear(c))
                        /\ WF_vars(StopReturn(c))
  /\ \A p \in Procs : /\ WF_vars(DiscFail(p) \/ DiscCollect(p) \/ DiscPanic(p))
                      /\ WF_vars(DiscFailReturn(p))
                      /\ WF_vars(DiscSetApps(p))
  /\ \A w \in WorkerIds : /\ WF_vars(DiscRead(w))
                          /\ WF_vars(WRecovered(w))
                          /\ WF_vars(WSelect(w))
                          /\ SF_vars(WStopped(w))
                          /\ WF_vars(WTick(w))

\* The admin API served while one caller starts, stops and refreshes the
\* sources.
NextAdmin == LifeNext({"c1"}, {"nginx"}) \/ AdminNext
SpecAdmin == Init /\ [][NextAdmin]_vars

\* Bulk requests with none, a few, and about maxBulkURLs URLs; a batch that
\* fails has written none, one, or all but one of its records.
NextBulk ==
  \E a \in Admins :
    \/ \E r \in BulkLimitRequests : Bulk(a, r)
    \/ \E saved \in BOOLEAN, k \in {0, 1, Len(abatch[a]) - 1, Len(abatch[a])} :
         BulkSave(a, saved, k)
SpecBulk == Init /\ [][NextBulk]_vars

\* "show" requests on stored and on new overrides while one caller starts,
\* stops and refreshes the nginx source.
NextShow ==
  \/ LifeNext({"c1"}, {"nginx"})
  \/ \E a \in Admins :
       \/ \E r \in ShowPutRequests : AdminPut(a, r, TRUE)
       \/ \E r \in ShowRequests : Bulk(a, r)
       \/ \E saved \in BOOLEAN, k \in 0..2 : BulkSave(a, saved, k)
SpecShow == Init /\ [][NextShow]_vars

\* PUT and DELETE requests on the override store while one caller starts,
\* stops and refreshes the nginx source.
NextPut ==
  \/ LifeNext({"c1"}, {"nginx"})
  \/ \E a \in Admins :
       \/ \E r \in PutRequests, saved \in BOOLEAN : AdminPut(a, r, saved)
       \/ \E url \in AdminURLs \cup {<<>>}, deleted \in BOOLEAN : AdminDelete(a, url, deleted)
SpecPut == Init /\ [][NextPut]_vars

\* A collector function followed on its own, on every input of the set.
InitCall(inputs) ==
  /\ InitLife /\ InitAdmin
  /\ arg \in inputs
  /\ ret = <<>>
  /\ stack = <<>>

\* resolveIncludes followed call by call on every include graph of
\* IncludeInputs; every step of a call is eventually taken.
NextIncludes ==
  \/ ResolveCall
  \/ ResolveCapped
  \/ ResolveText
  \/ ResolveDirective
  \/ ResolveSkip
  \/ ResolveInclude
  \/ ResolveReturn
SpecIncludes == InitCall(IncludeInputs) /\ [][NextIncludes]_vars /\ WF_vars(NextIncludes)

\* DiscoverNginxApps run once on every input of NginxInputs.
SpecNginx == InitCall(NginxInputs) /\ [][RunDiscoverNginx]_vars

\* DiscoverNginxApps run on every input of NginxInputs with one server
\* block met twice.
SpecRepeat == InitCall(NginxInputs) /\ [][RunDiscoverRepeated]_vars

\* Comment stripping and extractBlock on every text of BlockInputs.
SpecExtract == InitCall(BlockInputs) /\ [][RunExtractBlock]_vars

\* The [PORT:x] loop of processUnraidWebUIURL followed iteration by
\* iteration on every input of WebUIInputs; the goroutine keeps running.
NextScan == ScanCall \/ ScanStrip \/ ScanReturn
SpecScan == InitCall(WebUIInputs) /\ [][NextScan]_vars /\ WF_vars(NextScan)

\* dedupeAppsByBasePath called once on every list of DedupeInputs.
SpecDedupe == InitCall(DedupeInputs) /\ [][RunDedupe]_vars

\* processUnraidWebUIURL called once on every input of WebUIInputs.
SpecWebUI == InitCall(WebUIInputs) /\ [][RunWebUIURL]_vars

\* queryUnraidContainers called once on every input of UnraidInputs.
NextUnraid ==
  \/ QueryValidate
  \/ QueryDo
SpecUnraid == InitCall(UnraidInputs) /\ [][NextUnraid]_vars

\* One caller issuing its calls one after the other, fairly scheduled.
FairNext == LifeNext({"c1"}, Sources)
FairSpec == Init /\ [][FairNext]_vars /\ Fairness

\* ----------------------------------------------------------------- claims
StopPcs == {"stop_wait", "stop_clear", "stop_unlock"}
InStop(c, s) == pc[c] \in StopPcs /\ src[c] = s
\* The channels made for source s, i.e. the workers spawned for it.
ChansOf(s) == {ch \in 1..nspawn : src[WorkerName[ch]] = s}
Alive(w) == pc[w] \notin {"unborn", "done"}
\* The source is stopped: no handle, disabled, no live worker, no snapshot.
Stopped(s) == stop[s] = NilChan /\ ~enabled[s] /\ wg[s] = 0 /\ apps[s] = <<>>

\* C1: every call of Stop eventually returns, under fair scheduling and
\* terminating cycles, also when it is called while the worker is inside a
\* collection cycle.
C1_StopReturns == \A c \in Callers : (pc[c] = "stop_wait") ~> (pc[c] = "idle")

\* C2: a worker whose collection cycle panicked keeps running: after the
\* panic is caught it goes on to its select, it does not terminate.
C2_PanicKeepsWorker ==
  [][\A w \in WorkerIds : pc[w] = "w_recover" => pc'[w] \in {"w_recover", "w_sel"}]_vars

\* C3: at the moment a Stop call on a source returns, no worker of the
\* source is alive, its Enabled flag is false and its snapshot is empty.
C3_StopReturnsClean ==
  [][\A c \in Callers :
       (pc[c] = "stop_unlock" /\ pc'[c] = "idle") =>
          /\ wg'[src[c]] = 0
          /\ \A w \in WorkerIds : src'[w] = src[c] => ~Alive(w)'
          /\ ~enabled'[src[c]]
          /\ apps'[src[c]] = <<>>]_vars

\* C4: Start calls with no Stop in between spawn exactly one worker and make
\* one stop channel (the unclosed channels of a source are exactly its
\* current stop handle), and a Start on a source whose handle is set
\* changes neither Enabled, the handle, the workers nor anything else.
C4_OneOpenChannel ==
  \A s \in Sources :
     {ch \in ChansOf(s) : ch \notin closed} = (IF stop[s] = NilChan THEN {} ELSE {stop[s]})
C4_StartIdempotent ==
  /\ []C4_OneOpenChannel
  /\ [][\A c \in Callers, s \in Sources :
          (Start(c, s) /\ stop[s] # NilChan) =>
             UNCHANGED <<enabled, stop, closed, wg, apps, mu, pc, src, nspawn>>]_vars
C4_Witness ==
  /\ noopStart
  /\ \E s \in Sources : stop[s] # NilChan /\ Cardinality(ChansOf(s)) = 1 /\ wg[s] = 1

\* C5: concurrent Stop calls never close a closed or nil channel, and no
\* step of a Stop call takes an already-stopped source out of the stopped
\* state (no handle, disabled, empty snapshot, no worker).
C5_StopIdempotent ==
  /\ [](~closePanic)
  /\ [][\A c \in Callers, s \in Sources :
          (/\ Stopped(s)
           /\ \/ StopSignal(c, s)
              \/ (InStop(c, s) /\ pc'[c] # pc[c])) => Stopped(s)']_vars
C5_Witness ==
  \E c, d \in Callers, s \in Sources :
     /\ c # d
     /\ InStop(c, s) /\ InStop(d, s)
     /\ Cardinality(ChansOf(s)) = 1
     /\ ChansOf(s) \subseteq closed

\* C6: while a source is disabled and at rest (no stop handle, no worker,
\* no Stop call on it under way: a Stop has returned and no Start was called
\* since) its cached snapshot is empty, whatever cycles were in flight when
\* Stop ran.
C6_DisabledIsEmpty ==
  \A s \in Sources :
     (/\ ~enabled[s]
      /\ stop[s] = NilChan
      /\ wg[s] = 0
      /\ ~\E c \in Callers : InStop(c, s))
        => apps[s] = <<>>

\* C7: an override leaves the store only in a DELETE request for its URL:
\* no collection cycle, Start, Stop, GET, single upsert or bulk operation
\* removes one, also while its URL is in no snapshot.
C7_OverridesPersist ==
  [][\A u \in DOMAIN overrides :
       u \notin DOMAIN overrides' => \E a \in Admins : AdminDelete(a, u, TRUE)]_vars
C7_Witness ==
  /\ \E a \in Admins : /\ resp[a].op = "GET"
                        /\ UrlX \in DOMAIN overrides
                        /\ overrides[UrlX] \in resp[a].stale
  /\ overrides[UrlX].Hidden
  /\ \A s \in Sources : Stopped(s)
  /\ closed # {}

\* C8: the answer to GET lists in "stale" exactly the stored overrides whose
\* URL equals no URL of the aggregate read for the request, "active" is
\* that aggregate, and no URL is in both.
C8_StaleExact ==
  [][\A a \in Admins :
       AdminGetRespond(a) =>
          LET r == resp'[a]
              absent == {u \in DOMAIN overrides :
                           \A i \in 1..Len(araw[a]) : araw[a][i].URL # u}
          IN /\ r.active = araw[a]
             /\ r.stale = {overrides[u] : u \in absent}
             /\ \A o \in r.stale : \A i \in 1..Len(r.active) :
                   o.URL # r.active[i].URL]_vars
C8_Witness ==
  \E a \in Admins :
     /\ resp[a].op = "GET"
     /\ DOMAIN overrides = {UrlX, UrlXY}
     /\ \E i \in 1..Len(resp[a].active) : resp[a].active[i].URL = UrlX
     /\ resp[a].stale = {overrides[UrlXY]}

\* C9: every snapshot stored by a collector has pairwise distinct URLs.
C9_SnapshotURLsDistinct == \A s \in Sources : DistinctURLs(apps[s])

\* C10: a collection cycle that fails (an early return or a panic) leaves
\* the snapshot as it was; a snapshot changes only when a completed cycle
\* stores its list with SetApps or when Stop clears it.
C10_FailedCycleKeepsSnapshot ==
  [][/\ \A p \in Procs :
          (pc[p] \in {"d_io", "d_err", "w_recover"} /\ pc'[p] \notin {pc[p], "d_set"})
             => apps' = apps
     /\ \A s \in Sources :
          apps'[s] # apps[s] =>
             \/ \E p \in Procs : /\ pc[p] = "d_set" /\ src[p] = s
                                 /\ pc'[p] # "d_set" /\ apps'[s] = loc[p]
             \/ \E c \in Callers : /\ pc[c] = "stop_clear" /\ src[c] = s
                                   /\ pc'[c] = "stop_unlock" /\ apps'[s] = <<>>]_vars
C10_Witness ==
  /\ \E p \in Procs : pc[p] = "d_err" /\ fail[p] = "auth_failed" /\ apps[src[p]] # <<>>
  /\ \E w \in WorkerIds : pc[w] = "w_recover" /\ apps[src[w]] # <<>>

\* C11: the bulk handler checks method, JSON body, no URLs, too many URLs and
\* action in this order: the answer is that of the first failing check (405
\* for the method, 400 for the others), and a request that fails a check
\* makes no call to the registry or the store and leaves the store as it is.
C11_BulkChecksInOrder ==
  [][\A a \in Admins : \A r \in BulkLimitRequests :
       Bulk(a, r) =>
          LET n == Len(r.req.URLs)
              expected ==
                IF r.method # "POST" THEN <<405, "Method not allowed">>
                ELSE IF ~r.decoded THEN <<400, "Invalid JSON">>
                ELSE IF n = 0 THEN <<400, "No URLs provided">>
                ELSE IF n > 100 THEN <<400, "Too many URLs (max 100)">>
                ELSE IF r.req.Action # "show" THEN <<400, "Invalid action">>
                ELSE <<200, "">>
          IN IF expected[1] # 200
               THEN /\ resp'[a].status = expected[1]
                    /\ resp'[a].error = expected[2]
                    /\ acalls'[a] = <<>>
                    /\ overrides' = overrides
                    /\ apc'[a] = "idle"
               ELSE apc'[a] = "bulk_save"]_vars
C11_Witness ==
  \E a \in Admins :
     /\ resp[a].op = "BULK" /\ resp[a].status = 400
     /\ resp[a].error = "Too many URLs (max 100)"
     /\ acalls[a] = <<>>
     /\ Cardinality(DOMAIN overrides) = maxBulkURLs

\* The number of batch saves among the calls of a request.
BatchSaves(calls_) ==
  Cardinality({i \in 1..Len(calls_) : calls_[i] = "SaveDiscoveredOverridesBatch"})

\* C12: a POST with action show and n URLs is rejected with 400, before any
\* call to the store, exactly when n = 0 or n > 100; for 1 <= n <= 100 it
\* makes one batch save of n overrides and answers ok with updated = n
\* exactly when the save succeeds, 500 when it fails.
C12_BulkLimit ==
  [][\A a \in Admins :
       /\ \A r \in BulkLimitRequests :
            (Bulk(a, r) /\ r.method = "POST" /\ r.decoded /\ r.req.Action = "show") =>
               LET n == Len(r.req.URLs)
               IN IF n = 0 \/ n > 100
                    THEN /\ resp'[a].status = 400
                         /\ acalls'[a] = <<>>
                         /\ apc'[a] = "idle"
                         /\ overrides' = overrides
                    ELSE /\ apc'[a] = "bulk_save"
                         /\ Len(abatch'[a]) = n
                         /\ BatchSaves(acalls'[a]) = 0
                         /\ overrides' = overrides
       /\ \A saved \in BOOLEAN, k \in 0..maxBulkURLs :
            BulkSave(a, saved, k) =>
               /\ BatchSaves(acalls'[a]) = 1
               /\ IF saved
                    THEN /\ resp'[a].status = 200
                         /\ resp'[a].updated = Len(abatch[a])
                    ELSE resp'[a].status = 500]_vars
C12_Witness ==
  \E a \in Admins :
     /\ resp[a].op = "BULK" /\ resp[a].status = 200
     /\ resp[a].updated = maxBulkURLs
     /\ Cardinality(DOMAIN overrides) = maxBulkURLs
     /\ BatchSaves(acalls[a]) = 1

\* C13: for each URL of an accepted "show" request the override handed to
\* the batch save is the stored override of the URL, or when there is none a
\* new one with that URL, the source tag the aggregate has for the URL and
\* empty groups, changed only so: Hidden is false, Category is the request's
\* when that is non-empty, Groups is the request's list when that is
\* non-empty.
C13_ShowFrame ==
  [][\A a \in Admins : \A r \in ShowRequests :
       Bulk(a, r) =>
          /\ Len(abatch'[a]) = Len(r.req.URLs)
          /\ \A i \in 1..Len(r.req.URLs) :
               LET u == r.req.URLs[i]
                   b == abatch'[a][i]
                   tags == {g \in {"nginx", "unraid"} :
                              enabled[g] /\ \E j \in 1..Len(apps[g]) : apps[g][j].URL = u}
                   base == IF u \in DOMAIN overrides THEN overrides[u]
                           ELSE [URL |-> u,
                                 Source |-> IF tags = {} THEN "" ELSE CHOOSE g \in tags : TRUE,
                                 Hidden |-> FALSE, Category |-> "", Groups |-> Slice(<<>>)]
               IN /\ b.URL = u
                  /\ b.Source = base.Source
                  /\ b.Hidden = FALSE
                  /\ b.Category = (IF r.req.Category # "" THEN r.req.Category
                                   ELSE base.Category)
                  /\ b.Groups = (IF r.req.Groups.elems # <<>> THEN r.req.Groups
                                 ELSE base.Groups)]_vars
C13_Witness ==
  \E a \in Admins :
     /\ apc[a] = "bulk_save"
     /\ Len(abatch[a]) = 2
     /\ abatch[a][1].Source = "nginx" /\ abatch[a][1].Category = ""
     /\ abatch[a][2].Source = "manual" /\ abatch[a][2].Category = "Tools"
     /\ abatch[a][2].Groups = Slice(<<"users", "family">>)
     /\ ~abatch[a][2].Hidden /\ overrides[UrlXY].Hidden

\* C14: a PUT whose decoded override has an empty URL and a DELETE without
\* a url parameter are answered 400, call the store not at all and leave it
\* unchanged; a PUT with a URL makes exactly one save, and the override it
\* saves has the empty list as Groups when the request left Groups unset.
C14_PutDeleteChecks ==
  [][\A a \in Admins :
       /\ \A r \in PutRequests, saved \in BOOLEAN :
            (AdminPut(a, r, saved) /\ r.decoded) =>
               IF r.o.URL = <<>>
                 THEN /\ resp'[a].status = 400
                      /\ acalls'[a] = <<>>
                      /\ overrides' = overrides
                 ELSE /\ acalls'[a] = <<"SaveDiscoveredOverride">>
                      /\ saved => /\ resp'[a].status = 200
                                  /\ r.o.URL \in DOMAIN overrides'
                                  /\ r.o.Groups.isNil =>
                                       overrides'[r.o.URL].Groups = Slice(<<>>)
       /\ \A deleted \in BOOLEAN :
            AdminDelete(a, <<>>, deleted) =>
               /\ resp'[a].status = 400
               /\ acalls'[a] = <<>>
               /\ overrides' = overrides]_vars
C14_Witness ==
  \E a \in Admins :
     /\ resp[a].op = "PUT" /\ resp[a].status = 200
     /\ acalls[a] = <<"SaveDiscoveredOverride">>
     /\ nreq = 1
     /\ \E u \in DOMAIN overrides : overrides[u].Groups = Slice(<<>>)

\* C15: resolveIncludes returns on every include graph, self-includes and
\* cycles included: no call runs deeper than depth 4, a call entered
\* beyond depth 3 hands its content back with its directives unexpanded,
\* and the outermost call eventually returns.
C15_IncludesTerminate ==
  /\ [](\A i \in 1..Len(stack) : stack[i].depth = i - 1 /\ i - 1 <= 4)
  /\ [][(Len(stack) > 1 /\ Top.depth > 3)
         => /\ Len(stack') = Len(stack) - 1
            /\ stack'[Len(stack')].out =
                 stack[Len(stack) - 1].out \o Top.content \o <<"\n">>]_vars
  /\ <>(ret # <<>>)
\* A file that includes itself has been resolved: the directive met beyond
\* the cap is still in the result.
C15_Witness ==
  /\ ret # <<>>
  /\ "include a;" \in {arg.files["a"][i] : i \in 1..Len(arg.files["a"])}
  /\ "include a;" \in {ret[1][i] : i \in 1..Len(ret[1])}

\* A location path is on the exact-match blocklist once its trailing
\* slashes are trimmed (the root path trims to the empty string and stands
\* on the list as "/").
Blocklisted(path) ==
  \/ TrimRightSlash(path) \in skipLocationPaths
  \/ TrimRightSlash(path) = <<>>
\* C16: for every parsed server block and every location of it whose
\* trimmed path is on the exact-match blocklist, the snapshot produced by
\* DiscoverNginxApps holds no app whose URL is protocol://host followed by
\* that location path.
C16_BlocklistedAbsent ==
  (stack = <<>> /\ arg # <<>> /\ ret # <<>>) =>
    \A b \in 1..Len(arg.blocks) :
      \A l \in 1..Len(arg.blocks[b].locations) :
        Blocklisted(arg.blocks[b].locations[l].path) =>
          \A i \in 1..Len(ret[1]) :
            ret[1][i].URL # AppURL(arg.blocks[b].protocol, arg.blocks[b].host,
                                   arg.blocks[b].locations[l].path)
\* A run over a block that proxies /api/ and /x has produced a snapshot
\* with an app in it.
C16_Witness ==
  /\ stack = <<>> /\ arg # <<>> /\ ret # <<>>
  /\ Len(arg.blocks) = 1
  /\ arg.blocks[1].locations = <<[path |-> <<"/", "a", "p", "i", "/">>, upstream |-> "up1"],
                                  [path |-> <<"/", "x">>, upstream |-> "up1"]>>
  /\ Len(ret[1]) = 1

\* How often v occurs in the list s.
Count(s, v) == Cardinality({i \in 1..Len(s) : s[i] = v})
\* The kept app k is an ancestor of app a: same host, and a's trimmed URL
\* starts with k's trimmed URL plus "/".
Ancestor(k, a) ==
  /\ HostOfURL(k.URL) = HostOfURL(a.URL)
  /\ HasPrefix(TrimRightSlash(a.URL), TrimRightSlash(k.URL) \o <<"/">>)
\* C17: dedupeAppsByBasePath drops an app exactly when an already-kept app
\* of the same host is its ancestor: the result holds only apps of the
\* input, every dropped app has an ancestor among the kept ones, no kept
\* app has an ancestor kept before it, and of /lidarr and /lidarr/api only
\* /lidarr remains.
C17_DropsOnlySubPaths ==
  (stack = <<>> /\ arg # <<>> /\ ret # <<>>) =>
    LET given == arg.apps
        result == ret[1]
    IN  /\ \A j \in 1..Len(result) : Count(result, result[j]) <= Count(given, result[j])
        /\ \A i \in 1..Len(given) :
              Count(result, given[i]) < Count(given, given[i])
                => \E j \in 1..Len(result) : Ancestor(result[j], given[i])
        /\ \A j \in 1..Len(result) : \A i \in 1..(j - 1) : ~Ancestor(result[i], result[j])
        /\ {given[i].URL : i \in 1..Len(given)} = {UrlLidarr, UrlLidarrApi}
              => {result[j].URL : j \in 1..Len(result)} = {UrlLidarr}
\* /lidarr/api came before /lidarr and next to an app of another host, and
\* only the sub-path was dropped.
C17_Witness ==
  /\ stack = <<>> /\ arg # <<>> /\ ret # <<>>
  /\ Len(arg.apps) = 3
  /\ arg.apps[1].URL = UrlLidarrApi /\ arg.apps[2].URL = UrlLidarr
  /\ HostOfURL(arg.apps[3].URL) = <<"b">>
  /\ Len(ret[1]) = 2

\* The two substitutions in the other order: the [PORT:x] placeholders
\* first, then [IP].
PortThenIP(webUIURL, unraidURL) ==
  ReplaceAll(stripPortPlaceholders(webUIURL), IPPlaceholder, Hostname(unraidURL))
\* C18: processUnraidWebUIURL puts the server's hostname for every [IP]
\* and x for every [PORT:x]; the template http://[IP]:[PORT:8080]/ against
\* http://192.168.1.100 gives http://192.168.1.100:8080/; and the result is
\* the one obtained with the substitutions applied in the other order.
C18_OrderIndependent ==
  (stack = <<>> /\ arg # <<>> /\ ret # <<>>) =>
    /\ ret[1] = PortThenIP(arg.webUIURL, arg.unraidURL)
    /\ (arg.webUIURL = TemplateURL /\ arg.unraidURL = ServerURL)
          => ret[1] = ServerURL \o <<":", "8", "0", "8", "0", "/">>

\* C19: queryUnraidContainers sends no HTTP request unless
\* ValidateDiscoveryURL has accepted the configured URL; when the URL is
\* rejected the call returns an error and no host has been contacted.
C19_ValidatedBeforeRequest ==
  /\ \A i \in 1..Len(stack) : stack[i].requests # <<>> => arg.accepted
  /\ (ret # <<>> /\ ~arg.accepted) =>
        /\ ret[1].err # "" /\ ret[1].apps = <<>>
        /\ \A i \in 1..Len(stack) : stack[i].requests = <<>>
\* A call with a rejected URL has returned, though the server would have
\* answered with containers.
C19_Witness ==
  /\ ret # <<>> /\ ~arg.accepted
  /\ ~arg.response.err /\ arg.response.StatusCode = 200
  /\ arg.response.decodes /\ arg.response.Errors = <<>>
  /\ arg.response.Containers = UnraidAnswer

\* strings.EqualFold on letters: equal once both are lower-cased.
EqualFold(s, u) == ToLower(s) = ToLower(u)
\* C20: on a successful response queryUnraidContainers returns one app per
\* container with a non-empty WebUI label, in container order, and none
\* for the other containers; an app is online iff its container's state
\* equals RUNNING ignoring case, offline otherwise.
C20_OneAppPerLabelledContainer ==
  (ret # <<>> /\ ret[1].err = "") =>
    LET HasWebUI(container) == container.webui # <<>>
        labelled == SelectSeq(arg.response.Containers, HasWebUI)
        found == ret[1].apps
    IN  /\ Len(found) = Len(labelled)
        /\ \A i \in 1..Len(labelled) :
              /\ found[i].URL = processUnraidWebUIURL(labelled[i].webui, arg.unraidURL)
              /\ found[i].Description = labelled[i].image
              /\ found[i].Status = "online" <=> EqualFold(labelled[i].state, Running)
              /\ found[i].Status \in {"online", "offline"}
\* A successful answer listed a container without a label and one that
\* is "running" in lower case: one app, online.
C20_Witness ==
  /\ ret # <<>> /\ ret[1].err = ""
  /\ Len(arg.response.Containers) = 2
  /\ arg.response.Containers[1].webui = <<>>
  /\ arg.response.Containers[2].webui # <<>>
  /\ arg.response.Containers[2].state = <<"r", "u", "n", "n", "i", "n", "g">>
  /\ Len(ret[1].apps) = 1 /\ ret[1].apps[1].Status = "online"

\* A worker is inside a collection cycle.
InCycle(w) == pc[w] \in {"d_read", "d_io", "d_err", "d_set"}
\* C21: for one source at most one worker goroutine is alive, under any
\* interleaving of Start and Stop calls, so no two worker-driven collection
\* cycles of the source are in progress at the same time.
C21_OneWorkerPerSource ==
  \A s \in Sources :
     /\ Cardinality({w \in WorkerIds : Alive(w) /\ src[w] = s}) <= 1
     /\ Cardinality({w \in WorkerIds : InCycle(w) /\ src[w] = s}) <= 1

\* C22: every read and write of a source's Enabled flag and stop handle
\* (in Start, Stop, the collection function's enabled check and the worker
\* loop's select) happens under the discovery mutex: at such a step no
\* other goroutine holds it.
C22_AccessUnderMutex ==
  [][(\/ \E c \in Callers, s \in Sources : Start(c, s) \/ StopSignal(c, s) \/ Discover(c, s)
      \/ \E c \in Callers : StopClear(c)
      \/ \E w \in WorkerIds : DiscRead(w) \/ WSelect(w))
        => mu = Nil]_vars

\* C23: no goroutine holds the discovery mutex while it performs the file
\* or network I/O of a collection cycle or waits for the worker to exit;
\* Start, Stop and the collection functions hold it only to read or flip
\* the flag and the handle and to clear the snapshot.
C23_NoLockAcrossIO ==
  \A p \in Procs :
     /\ pc[p] \in {"d_io", "d_err", "d_set", "stop_wait", "w_sel", "w_wait"} => mu # p
     /\ mu = p => pc[p] = "stop_unlock"
\* A Stop holds the mutex in its second critical section while a worker is
\* in the I/O of its cycle and another Stop waits for a worker.
C23_Witness ==
  \E c, d \in Callers, w \in WorkerIds :
     /\ mu = c /\ pc[c] = "stop_unlock"
     /\ pc[w] = "d_io"
     /\ pc[d] = "stop_wait" /\ wg[src[d]] > 0

\* The stop channel a worker was started with.
ChanOf(w) == CHOOSE ch \in 1..MaxWorkers : WorkerName[ch] = w
\* C24: a worker's first action is one collection cycle, before it waits
\* for any tick; afterwards a tick starts a cycle only while no stop signal
\* has been raised: once Stop has closed the worker's stop channel the
\* worker starts no further cycle, even with a tick pending.
C24_NoCycleAfterStop ==
  [][\A w \in WorkerIds :
       /\ (pc[w] = "unborn" /\ pc'[w] # "unborn") => pc'[w] = "d_read"
       /\ (pc[w] = "w_wait" /\ pc'[w] = "d_read") => ChanOf(w) \notin closed]_vars

\* C25: whenever no Start or Stop call on a source is in progress, its
\* Enabled flag is true exactly when its stop handle is non-nil; a source
\* is never left with the handle set while Enabled is false.
C25_EnabledIffHandle ==
  \A s \in Sources :
     (~\E c \in Callers : InStop(c, s)) => (enabled[s] <=> stop[s] # NilChan)

\* C29: operations on one source never wait for operations on the other:
\* no Start, Stop or collection cycle of one source stands at a Lock or
\* RLock while the mutex is held by a Start, a Stop or a cycle of the other
\* source.
C29_SourcesIndependent ==
  \A p, q \in Procs :
     (/\ mu = q
      /\ pc[p] \in {"d_read", "stop_clear"}
      /\ src[p] \in Sources /\ src[q] \in Sources)
        => src[p] = src[q]

\* The URLs of a list of apps.
URLSet(list) == {list[i].URL : i \in 1..Len(list)}
\* C26: a run in which one server block is processed twice yields the same
\* set of app URLs as some run over the configuration with that block
\* processed once.
C26_RepeatInsensitive ==
  (arg # <<>> /\ ret # <<>>) =>
    \E once \in DiscoverNginxApps(arg.blocks) : URLSet(once) = URLSet(ret[1])

\* C27: a snapshot holds a host-level app protocol://host only if a server
\* block of that protocol and host has a proxy_pass at its top level,
\* outside every location; a configuration whose only proxy_pass
\* directives sit inside filtered-out locations yields no app.
C27_FallbackNeedsTopLevel ==
  (stack = <<>> /\ arg # <<>> /\ ret # <<>>) =>
    /\ \A j \in 1..Len(ret[1]) :
          \A b \in 1..Len(arg.blocks) :
             ret[1][j].URL = AppURL(arg.blocks[b].protocol, arg.blocks[b].host, <<>>)
               => \E c \in 1..Len(arg.blocks) :
                     /\ arg.blocks[c].protocol = arg.blocks[b].protocol
                     /\ arg.blocks[c].host = arg.blocks[b].host
                     /\ arg.blocks[c].upstream # ""
    /\ (\A b \in 1..Len(arg.blocks) :
          /\ arg.blocks[b].upstream = ""
          /\ \A l \in 1..Len(arg.blocks[b].locations) :
                shouldSkipLocation(arg.blocks[b].locations[l].path))
         => ret[1] = <<>>

\* The character at position i of s stands inside a quoted string: on its
\* line an odd number of double quotes precedes it and one follows it.
InQuotes(s, i) ==
  LET sameLine(k) == \A m \in 1..Len(s) : (m >= k /\ m < i) \/ (m > i /\ m <= k) => s[m] # "\n"
  IN  /\ Cardinality({k \in 1..(i - 1) : s[k] = "\"" /\ sameLine(k)}) % 2 = 1
      /\ \E k \in (i + 1)..Len(s) : s[k] = "\"" /\ sameLine(k)
\* The index (from 0) of the brace that closes the block when every brace
\* of s counts, or -1.
ClosingBrace(s) ==
  LET depth(i) == 1 + Cardinality({k \in 1..i : s[k] = "{"}) - Cardinality({k \in 1..i : s[k] = "}"})
      closes == {i \in 1..Len(s) : depth(i) = 0}
  IN  IF closes = {} THEN -1 ELSE (CHOOSE i \in closes : \A j \in closes : i <= j) - 1
\* C28: in a text whose every # stands inside a quoted string, comment
\* stripping removes nothing, and extractBlock closes the block at the
\* brace found when all braces of the text count.
C28_QuotedHashKept ==
  (arg # <<>> /\ ret # <<>> /\ \A i \in 1..Len(arg.content) : arg.content[i] = "#" => InQuotes(arg.content, i))
    => /\ ret[1].configContent = arg.content
       /\ ret[1].found.end = ClosingBrace(arg.content)

\* The text holds a "[PORT:" with a "]" somewhere after it.
PortPlaceholderIn(s) ==
  \E i \in 1..Len(s) :
     /\ HasPrefix(SubSeq(s, i, Len(s)), PortOpen)
     /\ \E j \in (i + 6)..Len(s) : s[j] = "]"
\* The text holds a "[PORT:" and no "]" after the first one.
PortUnclosedIn(s) ==
  /\ IndexOf(s, PortOpen) # 0
  /\ \A j \in IndexOf(s, PortOpen)..Len(s) : s[j] # "]"
\* C30: every call of processUnraidWebUIURL returns; what it returns holds
\* no "[PORT:" followed anywhere later by "]"; and a text whose first
\* "[PORT:" has no "]" after it is returned as it stands after the [IP]
\* replacement.
C30_ScanTerminates ==
  /\ <>(ret # <<>>)
  /\ [](ret # <<>> =>
          /\ stack = <<>>
          /\ ~PortPlaceholderIn(ret[1])
          /\ LET replaced == ReplaceAll(arg.webUIURL, IPPlaceholder, Hostname(arg.unraidURL))
             IN  PortUnclosedIn(replaced) => ret[1] = replaced)
\* A call has returned 80[PORT: for the label [PORT:80][PORT: : the closed
\* placeholder gave way to its default and the open one stayed in place.
C30_Witness ==
  /\ arg # <<>> /\ ret # <<>>
  /\ arg.webUIURL = <<"[", "P", "O", "R", "T", ":", "8", "0", "]", "[", "P", "O", "R", "T", ":">>
  /\ ret[1] = <<"8", "0", "[", "P", "O", "R", "T", ":">>

====
